---- MODULE Spec2Model ----
(***************************************************************************)
(* The Service Bus Consumer of pkg/servicebusclient/azure_servicebus.go:   *)
(* NewConsumer, Consumer.Start, Consumer.worker and Consumer.Stop, run     *)
(* against a receiver (the broker SDK) whose calls may succeed or fail.    *)
(*                                                                         *)
(* Time is a discrete clock in the units of the code's durations           *)
(* (seconds).  Tick advances the clock to the next expiry of a running     *)
(* timer (the backoff sleep, the two timer cases of Stop's select); a      *)
(* timer that has run out and a closed done channel are served before the  *)
(* clock advances again.  A receive call, a handler invocation and an      *)
(* acknowledgment call take any amount of time.                            *)
(*                                                                         *)
(* The other parts of the repository each have a specification of their    *)
(* own over the same variables, the rest of the state standing still:      *)
(*   ConfigSpec     NewConsumer alone                                      *)
(*   ClientSpec     the mock and the Azure ServiceBusClient, call by call  *)
(*   ConcSpec       goroutines calling the mock ServiceBusClient at once   *)
(*   StopTwiceSpec  the Consumer with Stop called more than once           *)
(*   BlobSpec       pkg/blobclient, MockBlobClient                         *)
(*   HttpSpec       ErrorHandlerMiddleware and SlowRequestMiddleware       *)
(*   RateSpec       pkg/httpservice, RateLimitMiddleware                   *)
(*   RetrySpec      pkg/utils, Retry                                       *)
(***************************************************************************)
EXTENDS Integers, Sequences, FiniteSets, TLC

(* ------------------------------ bounds -------------------------------- *)
\* the most messages in the queue when the consumer is built
NumMsgs == 3
\* the largest MaxConcurrent of the configurations tried
MaxWorkers == 2
\* the largest load a run starts with: workers x (queued messages + 1)
MaxLoad == 8
\* the same for the runs checked under fairness
LiveMaxLoad == 4
\* the longest caller-supplied deadline of Stop's context
MaxStopDeadline == 1
\* how many times Start is called again after Stop
MaxRestarts == 1
\* the most messages sent through a ServiceBusClient
MaxSends == 2
\* the largest maxMessages asked of a client's Receive
MaxReceive == 2
\* the most lock tokens Abandon is called with
MaxAbandons == 1
\* the largest count set in a ConsumerConfig when NewConsumer is checked alone
MaxConfigValue == 11
\* the most bytes uploaded to a blob
MaxBlobLen == 1
\* the longest request and the largest slow-request threshold, in ms
MaxLatency == 2
\* the largest RateLimitConfig.Burst
MaxBurst == 2
\* the clock ticks in which a limiter gains one token
RefillTicks == 2
\* the largest RetryConfig.MaxAttempts
MaxRetryAttempts == 3
\* the largest InitialDelay and MaxDelay of a RetryConfig
MaxRetryDelay == 3
\* the largest Multiplier of a RetryConfig
MaxMultiplier == 2

(* ------------------------- program constants -------------------------- *)
DefaultMaxConcurrent == 1
DefaultMaxMessages == 10
BackoffInterval == 1
StopTimeout == 30
CleanupMinutes == 3

\* a context without deadline
NoDeadline == -1

\* the configurations handed to NewConsumer
RawMaxConcurrent == 0..MaxWorkers
RawMaxMessages == {1, 5}

\* worker ids; Start uses 0..MaxConcurrent-1
WorkerIds == 0..MaxWorkers
StopDeadlines == {NoDeadline} \cup (0..MaxStopDeadline)

Min(a, b) == IF a <= b THEN a ELSE b

VARIABLES
    cfg,            \* c.config after NewConsumer's defaults
    receiverErr,    \* NewReceiverForQueue returned an error to NewConsumer
    rawCfg,         \* the ConsumerConfig handed to NewConsumer
    consumer,       \* what NewConsumer returned: "built" or "nil"; "none"
                    \* before it is called
    startPc,        \* Start: "idle", "spawning", "returned"
    startI,         \* Start's loop variable i
    startRet,       \* what Start returned: "none" before it returns
    starts,         \* how many times Start was called again after Stop
    wg,             \* c.wg counter
    ctxCancelled,   \* the context given to Start is done
    stopChan,       \* TRUE once c.stopChan is closed
    pc,             \* worker position: "none","loop","receiving","timedOut",
                    \* "backoff","handler","ack","hung","exited"
    batch,          \* worker's current batch: one record per message, with
                    \* the handler's result and the calls made for its token
    idx,            \* worker's position in its batch (1-based)
    timer,          \* worker's remaining backoff sleep
    queue,          \* broker: number of messages available for delivery
    issued,         \* broker: number of lock tokens handed out so far,
                    \* counted up to NumMsgs + 1
    receiverClosed, \* the receiver was closed
    stopPc,         \* Stop: "idle", "waiting", "returned"
    done,           \* Stop's done channel is closed
    stopTimer,      \* remaining time of Stop's time.After
    stopCtx,        \* remaining time of Stop's context, or NoDeadline
    stopVia,        \* the select case Stop took
    idleStop,       \* Stop found every worker idle and none has received since
    client,         \* the ServiceBusClient in use: "mock", "azure", or "none"
    mockQueues,     \* MockServiceBusClient.queues: queue name -> messages
    broker,         \* the Service Bus queues behind the Azure client: queue
                    \* name -> the azservicebus messages waiting in it
    now,            \* the clock read by Send: the number of sends so far
    sentLog,        \* per queue, the messages sent to it, in order
    optsLog,        \* per queue, the body and options of each send, in order
    recvLog,        \* per queue, the messages Receive has returned, in order
    lastReceive,    \* the last call of Receive and what it returned
    abandoned,      \* the lock tokens Abandon was called with
    mu,             \* MockServiceBusClient.mu: the caller holding it, or ""
    callers,        \* the goroutines calling the mock client: where each is
                    \* in its call, the call's arguments and locals
    panicked,       \* the program has ended in a panic
    blobs,          \* MockBlobClient.blobs: container -> blob name -> data
    blobLast,       \* per container and blob name, the last Upload or Delete
                    \* that returned no error, with the bytes uploaded
    blobRet,        \* the last call of Get, Exists or List and what it returned
    httpReq,        \* the request being served and the middleware set-up
    httpPc,         \* the request: "idle", "handler", "after", "done"
    httpPending,    \* the middlewares whose c.Next() has yet to return,
                    \* innermost first
    ginErrors,      \* c.Errors
    writer,         \* c.Writer: status, whether written, response header
    alerts,         \* the calls made on the telemetry and Slack clients
    rlBurst,        \* RateLimitConfig.Burst
    rlClients,      \* RateLimitMiddleware's clients: IP -> the tokens of its
                    \* limiter (in ticks) and the time since lastSeen
    rlLast,         \* the last request through the middleware and its outcome
    retryCfg,       \* the RetryConfig given to Retry, and whether the call is
                    \* RetryWithResult
    retryPc,        \* Retry: "idle", "loop", "fn", "waiting", "returned"
    attempt,        \* Retry's loop variable
    fnLog,          \* what each invocation of fn returned, in order
    waits,          \* the delays of the waits Retry has begun, in order
    lastErr,        \* Retry's lastErr
    retryRet,       \* what Retry returned
    retryCtx,       \* the context given to Retry is cancelled
    cancelAt,       \* where Retry was when the context was cancelled
    rlRun           \* per IP, its requests since time last passed: how many
                    \* whole tokens it had at the first, whether its client
                    \* was made by the first, their number, how many passed

vars == <<cfg, receiverErr, rawCfg, consumer, startPc, startI, startRet, starts, wg, ctxCancelled, stopChan, pc, batch, idx,
          timer, queue, issued, receiverClosed, stopPc, done,
          stopTimer, stopCtx, stopVia, idleStop,
          client, mockQueues, broker, now, sentLog, optsLog, recvLog,
          lastReceive, abandoned, mu, callers, panicked, blobs, blobLast, blobRet,
          httpReq, httpPc, httpPending, ginErrors, writer, alerts,
          rlBurst, rlClients, rlLast, rlRun, retryCfg, retryPc, attempt,
          fnLog, waits, lastErr, retryRet, retryCtx, cancelAt>>

buildVars == <<cfg, receiverErr, rawCfg, consumer>>
startVars == <<startPc, startI, startRet, starts>>
workerVars == <<pc, batch, idx, timer>>
brokerVars == <<queue, issued>>
stopVars == <<stopPc, done, stopTimer, stopCtx, stopVia, idleStop>>
lockVars == <<mu, callers>>
clientVars == <<client, mockQueues, broker, now, sentLog, optsLog, recvLog,
                lastReceive, abandoned, lockVars>>
consumerVars == <<buildVars, startVars, wg, ctxCancelled, stopChan, workerVars,
                  brokerVars, receiverClosed, stopVars, panicked>>
blobVars == <<blobs, blobLast, blobRet>>
\* the state of the packages other than servicebusclient
httpVars == <<httpReq, httpPc, httpPending, ginErrors, writer, alerts>>
rateVars == <<rlBurst, rlClients, rlLast, rlRun>>
retryVars == <<retryCfg, retryPc, attempt, fnLog, waits, lastErr, retryRet,
               retryCtx, cancelAt>>
extraVars == <<blobVars, httpVars, rateVars, retryVars>>

(* ------------------------ ServiceBusClient state ---------------------- *)
\* the queue names the callers use
QueueNames == {"orders", "events"}

\* the goroutines that call the mock client concurrently
Callers == {"g1", "g2"}

\* a goroutine that is in no call
IdleCaller ==
    [pc |-> "idle", op |-> "", q |-> "", body |-> "", opts |-> <<>>, max |-> 0,
     local |-> <<>>, out |-> <<>>]

\* no call of Receive yet
NoReceive ==
    [called |-> FALSE, queue |-> "", max |-> 0, had |-> 0, msgs |-> <<>>,
     err |-> "nil"]

\* a client right after its construction (NewMockServiceBusClient: an empty
\* map of queues), nothing sent or received through it
NewClient(kind) ==
    /\ client = kind
    /\ mockQueues = [q \in {} |-> <<>>]
    /\ broker = [q \in QueueNames |-> <<>>]
    /\ now = 0
    /\ sentLog = [q \in QueueNames |-> <<>>]
    /\ optsLog = [q \in QueueNames |-> <<>>]
    /\ recvLog = [q \in QueueNames |-> <<>>]
    /\ lastReceive = NoReceive
    /\ abandoned = {}
    /\ mu = ""
    /\ callers = [p \in Callers |-> IdleCaller]

(* ------------------------ MockBlobClient state ------------------------ *)
\* the containers and blob names (as sequences of characters) the callers use
Containers == {"c1", "c2"}
BlobNames == {<<"a">>, <<"a", "b">>}

\* no call of Upload, Get, Delete, Exists or List yet
NoBlobCall ==
    [op |-> "none", container |-> "", name |-> <<>>, exists |-> FALSE,
     data |-> <<>>, items |-> {}, url |-> "", err |-> "nil"]

\* NewMockBlobClient(): an empty map of containers, nothing called
NewMockBlobClient ==
    /\ blobs = [c \in {} |-> <<>>]
    /\ blobLast = [c \in Containers |->
                     [b \in BlobNames |-> [op |-> "none", data |-> <<>>]]]
    /\ blobRet = NoBlobCall

(* ------------------------- HTTP request state ------------------------- *)
\* a request and the set-up it is served with: the order in which the two
\* middlewares were registered with router.Use, the X-Service-Handled header
\* the client sent (or ""), the latency SlowRequestMiddleware measures, its
\* threshold, and whether a telemetry and a Slack client were given
Request(first, header, latencyMs, slowThresholdMs, telemetry, slack) ==
    [first |-> first, header |-> header, latencyMs |-> latencyMs,
     slowThresholdMs |-> slowThresholdMs, telemetryClient |-> telemetry,
     slackClient |-> slack]

\* a gin.Context at the start of a request: no error, nothing written (the
\* writer's status is 200 until something is written), no response header
NewContext ==
    /\ ginErrors = <<>>
    /\ writer = [status |-> 200, written |-> FALSE, serviceHandled |-> ""]
    /\ alerts = {}

\* no request is being served
HttpIdle ==
    /\ httpReq = Request("error", "", 0, 0, FALSE, FALSE)
    /\ httpPc = "idle"
    /\ httpPending = <<>>
    /\ NewContext

(* ------------------------ RateLimitMiddleware state ------------------- *)
\* the client IPs
IPs == {"10.0.0.1", "10.0.0.2"}

\* no request seen yet
NoRequest == [ip |-> "", status |-> 0, handler |-> FALSE]
NoRun == [start |-> 0, fresh |-> FALSE, n |-> 0, passed |-> 0]

\* RateLimitMiddleware(cfg): an empty map of clients
NewRateLimit(burst) ==
    /\ rlBurst = burst
    /\ rlClients = [ip \in {} |-> <<>>]
    /\ rlLast = NoRequest
    /\ rlRun = [ip \in IPs |-> NoRun]

\* no rate limiter in use
RateIdle == NewRateLimit(0)

(* ----------------------------- Retry state ---------------------------- *)
\* a RetryConfig, and whether it is given to RetryWithResult
RetryConfig(maxAttempts, initialDelay, maxDelay, multiplier, withResult) ==
    [MaxAttempts |-> maxAttempts, InitialDelay |-> initialDelay,
     MaxDelay |-> maxDelay, Multiplier |-> multiplier, withResult |-> withResult]

\* nothing returned yet
NoReturn == [kind |-> "none", err |-> "nil", result |-> "zero"]

\* Retry is called with a config: var lastErr error; attempt := 0
RetryCalled(config, cancelled) ==
    /\ retryCfg = config
    /\ retryPc = "loop"
    /\ attempt = 0
    /\ fnLog = <<>>
    /\ waits = <<>>
    /\ lastErr = "nil"
    /\ retryRet = NoReturn
    /\ retryCtx = cancelled
    /\ cancelAt = IF cancelled /\ 0 < config.MaxAttempts THEN "loop" ELSE "none"

\* Retry is not called
RetryIdle ==
    /\ retryCfg = RetryConfig(0, 0, 0, 0, FALSE)
    /\ retryPc = "idle"
    /\ attempt = 0
    /\ fnLog = <<>>
    /\ waits = <<>>
    /\ lastErr = "nil"
    /\ retryRet = NoReturn
    /\ retryCtx = FALSE
    /\ cancelAt = "none"

(* ----------------------- the other packages idle -------------------- *)
\* nothing of the packages other than servicebusclient has been called
ExtraIdle == NewMockBlobClient /\ HttpIdle /\ RateIdle /\ RetryIdle

(* ----------------------------- NewConsumer ---------------------------- *)
\* mutant: only the zero value is replaced by the default
NewConsumer_ZeroOnly(maxConcurrent, maxMessages) ==
    [MaxConcurrent |-> IF maxConcurrent = 0 THEN DefaultMaxConcurrent
                       ELSE maxConcurrent,
     MaxMessages   |-> IF maxMessages = 0 THEN DefaultMaxMessages
                       ELSE maxMessages]

\* the defaults NewConsumer applies to the two counts of its config
NewConsumer(maxConcurrent, maxMessages) ==
    [MaxConcurrent |-> IF maxConcurrent <= 0 THEN DefaultMaxConcurrent
                       ELSE maxConcurrent,
     MaxMessages   |-> IF maxMessages <= 0 THEN DefaultMaxMessages
                       ELSE maxMessages]

\* mutant: the error of NewReceiverForQueue is dropped
NewConsumerFails_Ignored(err) == FALSE

\* NewConsumer returns nil and an error when the receiver cannot be created
NewConsumerFails(err) == err

\* NewConsumer returned a Consumer: there is one to call Start and Stop on
Built == consumer = "built"

\* a ConsumerConfig with the two counts set
Config(maxConcurrent, maxMessages) ==
    [MaxConcurrent |-> maxConcurrent, MaxMessages |-> maxMessages]

\* the results of NewConsumer(client, raw, handler), err being the error of
\* NewReceiverForQueue
Constructed(raw, err) ==
    /\ rawCfg = raw
    /\ receiverErr = err
    /\ cfg = NewConsumer(raw.MaxConcurrent, raw.MaxMessages)
    /\ consumer = IF NewConsumerFails(err) THEN "nil" ELSE "built"

\* the inputs of a run: MaxConcurrent, MaxMessages and the number of queued
\* messages, within a load
Inputs(load) ==
    {in \in RawMaxConcurrent \X RawMaxMessages \X (0..NumMsgs) :
        NewConsumer(in[1], in[2]).MaxConcurrent * (in[3] + 1) <= load}

\* nothing has been started or stopped and no message was handed out
NotStarted ==
    /\ startPc = "idle"
    /\ startI = 0
    /\ startRet = "none"
    /\ starts = 0
    /\ wg = 0
    /\ ctxCancelled = FALSE
    /\ stopChan = FALSE
    /\ pc = [w \in WorkerIds |-> "none"]
    /\ batch = [w \in WorkerIds |-> <<>>]
    /\ idx = [w \in WorkerIds |-> 1]
    /\ timer = [w \in WorkerIds |-> 0]
    /\ issued = 0
    /\ receiverClosed = FALSE
    /\ stopPc = "idle"
    /\ done = FALSE
    /\ stopTimer = 0
    /\ stopCtx = NoDeadline
    /\ stopVia = "none"
    /\ idleStop = FALSE
    /\ panicked = FALSE

InitWith(load) ==
    /\ \E in \in Inputs(load), err \in BOOLEAN :
          /\ Constructed(Config(in[1], in[2]), err)
          /\ queue = in[3]
    /\ NotStarted
    /\ NewClient("none")
    /\ ExtraIdle

Init == InitWith(MaxLoad)

LiveInit == InitWith(LiveMaxLoad)

(* -------------------------------- Start ------------------------------- *)
\* mutant: the loop runs once too often
StartLoopCond_OffByOne(i) == i <= cfg.MaxConcurrent

\* the condition of Start's for loop
StartLoopCond(i) == i < cfg.MaxConcurrent

\* one iteration of Start's loop: c.wg.Add(1); go c.worker(ctx, i); after the
\* last one Start returns nil (NewConsumer leaves MaxConcurrent >= 1, so the
\* loop runs at least once)
StartSpawn ==
    /\ Built
    /\ startPc \in {"idle", "spawning"}
    /\ StartLoopCond(startI)
    /\ startI \in WorkerIds
    /\ wg' = wg + 1
    /\ pc' = [pc EXCEPT ![startI] = "loop"]
    /\ startI' = startI + 1
    /\ startPc' = IF StartLoopCond(startI + 1) THEN "spawning" ELSE "returned"
    /\ startRet' = IF StartLoopCond(startI + 1) THEN "none" ELSE "nil"
    /\ UNCHANGED <<panicked, extraVars, clientVars, buildVars, starts, ctxCancelled, stopChan, batch, idx, timer, brokerVars,
                   receiverClosed, stopVars>>

\* the caller calls Start again, with a new context, on a Consumer whose Stop
\* has returned and whose workers have all exited: the goroutines of the
\* earlier call are gone and the loop of Start begins anew.  (A second call of
\* Stop is StopAgain, a step of StopTwiceSpec only.)
StartAgain ==
    /\ Built
    /\ starts < MaxRestarts
    /\ startPc = "returned"
    /\ stopPc = "returned"
    /\ \A w \in WorkerIds : pc[w] \in {"none", "exited"}
    /\ starts' = starts + 1
    /\ startPc' = "idle"
    /\ startI' = 0
    /\ startRet' = "none"
    /\ pc' = [w \in WorkerIds |-> "none"]
    /\ ctxCancelled' = FALSE
    /\ UNCHANGED <<panicked, extraVars, clientVars, buildVars, wg, stopChan, batch, idx, timer, brokerVars,
                   receiverClosed, stopVars>>

\* the caller cancels the context it gave to Start
CancelCtx ==
    /\ ~ctxCancelled
    /\ ctxCancelled' = TRUE
    /\ UNCHANGED <<panicked, extraVars, clientVars, buildVars, startVars, wg, stopChan, workerVars, brokerVars,
                   receiverClosed, stopVars>>

(* ------------------------------- worker ------------------------------- *)
\* mutant: the worker's select has no case for the caller's context
LoopSelectCases_IgnoreCtx ==
    IF stopChan THEN {"stop"} ELSE {"default"}

\* mutant: the worker's select has no case for the stop channel
LoopSelectCases_IgnoreStop ==
    IF ctxCancelled THEN {"ctx"} ELSE {"default"}

\* the cases of the worker's select that are ready; default only if none is
LoopSelectCases ==
    IF stopChan \/ ctxCancelled
    THEN {c \in {"stop", "ctx"} : IF c = "stop" THEN stopChan ELSE ctxCancelled}
    ELSE {"default"}

\* top of the for loop: exit on a signal, otherwise issue a receive call;
\* either way the messages of the previous iteration are out of scope
WorkerLoop(w) ==
    /\ pc[w] = "loop"
    /\ \E c \in LoopSelectCases :
          IF c = "default"
          THEN /\ pc' = [pc EXCEPT ![w] = "receiving"]
               /\ wg' = wg
          ELSE /\ pc' = [pc EXCEPT ![w] = "exited"]
               /\ wg' = wg - 1
    /\ batch' = [batch EXCEPT ![w] = <<>>]
    /\ idx' = [idx EXCEPT ![w] = 1]
    /\ UNCHANGED <<panicked, extraVars, clientVars, buildVars, startVars, ctxCancelled, stopChan, timer, brokerVars,
                   receiverClosed, stopVars>>

\* what ReceiveMessages can return now; k is the number of messages
RecvOutcomes(k) ==
    IF k > 0 THEN {"messages"}
    ELSE IF receiverClosed THEN {"error"}
    ELSE {"empty", "timeout", "error"} \cup
         (IF ctxCancelled THEN {"canceled"} ELSE {})

\* mutant: a failed receive ends the worker
AfterReceive_ExitOnError(outcome) ==
    CASE outcome \in {"timeout", "canceled"} -> "timedOut"
      [] outcome = "error" -> "exited"
      [] outcome = "empty" -> "loop"
      [] outcome = "messages" -> "handler"

\* mutant: a receive call that timed out is treated as a failed one
AfterReceive_BackoffOnTimeout(outcome) ==
    CASE outcome \in {"timeout", "canceled", "error"} -> "backoff"
      [] outcome = "empty" -> "loop"
      [] outcome = "messages" -> "handler"

\* the worker's branch on the result of ReceiveMessages: the continue of a
\* timed-out or cancelled call, the sleep after any other error, the range
\* loop over the messages (none: back to the top of the loop)
AfterReceive(outcome) ==
    CASE outcome \in {"timeout", "canceled"} -> "timedOut"
      [] outcome = "error" -> "backoff"
      [] outcome = "empty" -> "loop"
      [] outcome = "messages" -> "handler"

\* mutant: no sleep after a failed receive
BackoffSleep_None == BackoffInterval - 1

\* the sleep after a failed receive
BackoffSleep == BackoffInterval

\* a batch of k received messages: no handler result yet, nothing acknowledged
NewBatch(k) ==
    [i \in 1..k |-> [res |-> "none", nC |-> 0, nA |-> 0]]

\* mutant: ReceiveMessages is asked for as many messages as there are
ReceiveLimit_Unlimited == NumMsgs

\* the most messages ReceiveMessages is asked for: c.config.MaxMessages
ReceiveLimit == cfg.MaxMessages

ReceiveDone(w, k, outcome) ==
    /\ pc[w] = "receiving"
    /\ k <= Min(ReceiveLimit, queue)
    /\ k > 0 => ~receiverClosed
    /\ outcome \in RecvOutcomes(k)
    /\ pc' = [pc EXCEPT ![w] = AfterReceive(outcome)]
    /\ timer' = [timer EXCEPT ![w] =
                    IF AfterReceive(outcome) = "backoff" THEN BackoffSleep ELSE 0]
    /\ IF outcome = "messages"
       THEN /\ batch' = [batch EXCEPT ![w] = NewBatch(k)]
            /\ idx' = [idx EXCEPT ![w] = 1]
            /\ issued' = Min(issued + k, NumMsgs + 1)
            /\ queue' = queue - k
       ELSE UNCHANGED <<batch, idx, issued, queue>>
    /\ idleStop' = (idleStop /\ outcome \in {"empty", "timeout", "canceled"})
    /\ UNCHANGED <<panicked, extraVars, clientVars, buildVars, startVars, wg, ctxCancelled, stopChan, receiverClosed,
                   stopPc, done, stopTimer, stopCtx, stopVia>>

\* the continue after a receive call that timed out or was cancelled
TimeoutContinue(w) ==
    /\ pc[w] = "timedOut"
    /\ pc' = [pc EXCEPT ![w] = "loop"]
    /\ UNCHANGED <<panicked, extraVars, clientVars, buildVars, startVars, wg, ctxCancelled, stopChan, batch, idx,
                   timer, brokerVars, receiverClosed, stopVars>>

\* time.Sleep returns
BackoffDone(w) ==
    /\ pc[w] = "backoff"
    /\ timer[w] = 0
    /\ pc' = [pc EXCEPT ![w] = "loop"]
    /\ UNCHANGED <<panicked, extraVars, clientVars, buildVars, startVars, wg, ctxCancelled, stopChan, batch, idx,
                   timer, brokerVars, receiverClosed, stopVars>>

\* the handler returns nil ("ok") or an error ("err") for the current message
HandlerReturn(w, res) ==
    /\ pc[w] = "handler"
    /\ batch' = [batch EXCEPT ![w][idx[w]].res = res]
    /\ pc' = [pc EXCEPT ![w] = "ack"]
    /\ UNCHANGED <<panicked, extraVars, clientVars, buildVars, startVars, wg, ctxCancelled, stopChan, idx, timer,
                   brokerVars, receiverClosed, stopVars>>

\* the handler never returns
HandlerHang(w) ==
    /\ pc[w] = "handler"
    /\ pc' = [pc EXCEPT ![w] = "hung"]
    /\ UNCHANGED <<panicked, extraVars, clientVars, buildVars, startVars, wg, ctxCancelled, stopChan, batch, idx,
                   timer, brokerVars, receiverClosed, stopVars>>

\* mutant: every message is abandoned
AckFor_AlwaysAbandon(w) == "abandon"

\* mutant: every message is completed
AckFor_AlwaysComplete(w) == "complete"

\* mutant: the handler's error is not reset between the messages of a batch
AckFor_StickyErr(w) ==
    IF \E i \in 1..idx[w] : batch[w][i].res = "err" THEN "abandon" ELSE "complete"

\* the acknowledgment worker w issues for its current message
AckFor(w) == IF batch[w][idx[w]].res = "err" THEN "abandon" ELSE "complete"

\* mutant: the range loop ends after its first message
AfterAck_SkipRest(w) == "loop"

\* mutant: the signals are consulted between the messages of a batch
AfterAck_CheckStop(w) ==
    IF stopChan \/ ctxCancelled THEN "loop"
    ELSE IF idx[w] < Len(batch[w]) THEN "handler" ELSE "loop"

\* where worker w goes after acknowledging its current message: the next
\* message of the range loop, or the top of the for loop
AfterAck(w) == IF idx[w] < Len(batch[w]) THEN "handler" ELSE "loop"

\* mutant: a failed acknowledgment call ends the worker
AfterAckCall_ExitOnError(w, ok) == IF ok THEN AfterAck(w) ELSE "exited"

\* where worker w goes when its acknowledgment call has returned: an error of
\* the call is logged and changes nothing
AfterAckCall(w, ok) == AfterAck(w)

\* mutant: the range loop steps over a message
NextIndex_Skip(w) == idx[w] + 2

\* the range loop moves to the next message of the batch
NextIndex(w) == idx[w] + 1

\* AbandonMessage / CompleteMessage; ok is whether the broker accepts the call
Ack(w, ok) ==
    /\ pc[w] = "ack"
    /\ ok => ~receiverClosed
    /\ IF AckFor(w) = "abandon"
       THEN /\ batch' = [batch EXCEPT ![w][idx[w]].nA = @ + 1]
            /\ queue' = IF ok THEN queue + 1 ELSE queue
       ELSE /\ batch' = [batch EXCEPT ![w][idx[w]].nC = @ + 1]
            /\ queue' = queue
    /\ pc' = [pc EXCEPT ![w] = AfterAckCall(w, ok)]
    /\ idx' = [idx EXCEPT ![w] = NextIndex(w)]
    /\ UNCHANGED <<panicked, extraVars, clientVars, buildVars, startVars, wg, ctxCancelled, stopChan, timer, issued,
                   receiverClosed, stopVars>>

(* -------------------------------- Stop -------------------------------- *)
Spawned == {w \in WorkerIds : pc[w] # "none"}
AllIdle == \A w \in Spawned : pc[w] \in {"loop", "receiving", "timedOut"}

\* close(c.stopChan) and the start of the wait; d is the deadline of Stop's ctx
StopCall(d) ==
    /\ Built
    /\ stopPc = "idle"
    /\ stopPc' = "waiting"
    /\ stopChan' = TRUE
    /\ stopTimer' = StopTimeout
    /\ stopCtx' = d
    /\ idleStop' = (startPc = "returned" /\ AllIdle)
    /\ UNCHANGED <<panicked, extraVars, clientVars, buildVars, startVars, wg, ctxCancelled, workerVars, brokerVars,
                   receiverClosed, done, stopVia>>

\* mutant: Stop does not wait for the workers
WaitReturns_NoWait == TRUE

\* mutant: Wait returns while one worker is still running
WaitReturns_OneLeft == wg <= 1

\* wg.Wait() returns
WaitReturns == wg = 0

\* the goroutine of Stop: c.wg.Wait(); close(done)
WaiterDone ==
    /\ stopPc # "idle"
    /\ ~done
    /\ WaitReturns
    /\ done' = TRUE
    /\ UNCHANGED <<panicked, extraVars, clientVars, buildVars, startVars, wg, ctxCancelled, stopChan, workerVars,
                   brokerVars, receiverClosed, stopPc, stopTimer, stopCtx,
                   stopVia, idleStop>>

\* mutant: Stop's select has no time.After case
SelectReady_NoTimeout(via) ==
    CASE via = "done" -> done
      [] via = "ctx" -> stopCtx = 0
      [] via = "timeout" -> FALSE

\* whether a case of Stop's select is ready
SelectReady(via) ==
    CASE via = "done" -> done
      [] via = "ctx" -> stopCtx = 0
      [] via = "timeout" -> stopTimer = 0

\* Stop's select, then c.receiver.Close(ctx) and the return
StopSelect(via) ==
    /\ stopPc = "waiting"
    /\ SelectReady(via)
    /\ stopVia' = via
    /\ receiverClosed' = TRUE
    /\ stopPc' = "returned"
    /\ stopTimer' = 0
    /\ stopCtx' = NoDeadline
    /\ UNCHANGED <<panicked, extraVars, clientVars, buildVars, startVars, wg, ctxCancelled, stopChan, workerVars,
                   brokerVars, done, idleStop>>

\* Stop is called again, while the first call is waiting or after it has
\* returned: close(c.stopChan) of the closed channel panics, and the rest of
\* Stop is not run
StopAgain ==
    /\ Built
    /\ stopPc # "idle"
    /\ stopChan
    /\ ~panicked
    /\ panicked' = TRUE
    /\ UNCHANGED <<extraVars, clientVars, buildVars, startVars, wg, ctxCancelled,
                   stopChan, workerVars, brokerVars, receiverClosed, stopVars>>

(* -------------------------------- clock ------------------------------- *)
Sleeping == {w \in WorkerIds : pc[w] = "backoff"}

\* the remaining times of the timers that are running
RunningTimers ==
    {timer[w] : w \in Sleeping}
      \cup (IF stopPc = "waiting" THEN {stopTimer} ELSE {})
      \cup (IF stopPc = "waiting" /\ stopCtx # NoDeadline THEN {stopCtx} ELSE {})

\* no timer has run out unserved, done is not closed unserved, a timer runs
TimeCanPass ==
    /\ RunningTimers # {}
    /\ \A t \in RunningTimers : t > 0
    /\ stopPc = "waiting" => ~done

\* the clock advances to the next expiry of a running timer
Tick ==
    /\ TimeCanPass
    /\ LET delta == CHOOSE t \in RunningTimers : \A u \in RunningTimers : t <= u
       IN  /\ timer' = [w \in WorkerIds |->
                          IF w \in Sleeping THEN timer[w] - delta ELSE timer[w]]
           /\ IF stopPc = "waiting"
              THEN /\ stopTimer' = stopTimer - delta
                   /\ stopCtx' = IF stopCtx = NoDeadline THEN NoDeadline
                                 ELSE stopCtx - delta
              ELSE UNCHANGED <<stopTimer, stopCtx>>
    /\ UNCHANGED <<panicked, extraVars, clientVars, buildVars, startVars, wg, ctxCancelled, stopChan, pc, batch, idx,
                   brokerVars, receiverClosed, stopPc, done, stopVia, idleStop>>

(* ---------------------------- specification --------------------------- *)
WorkerStep(w) ==
    \/ WorkerLoop(w)
    \/ \E k \in 0..NumMsgs, o \in {"messages", "empty", "timeout", "canceled", "error"} :
          ReceiveDone(w, k, o)
    \/ TimeoutContinue(w)
    \/ BackoffDone(w)
    \/ \E res \in {"ok", "err"} : HandlerReturn(w, res)
    \/ HandlerHang(w)
    \/ \E ok \in BOOLEAN : Ack(w, ok)

StopStep ==
    \/ WaiterDone
    \/ \E via \in {"done", "ctx", "timeout"} : StopSelect(via)

Next ==
    \/ StartSpawn
    \/ StartAgain
    \/ CancelCtx
    \/ \E w \in WorkerIds : WorkerStep(w)
    \/ \E d \in StopDeadlines : StopCall(d)
    \/ StopStep
    \/ Tick

Spec == Init /\ [][Next]_vars

\* Goroutines that can run do run, a started Start finishes its loop and the
\* clock advances; the caller's Start, Stop and cancellation are not forced.
Fairness ==
    /\ \A w \in WorkerIds : WF_vars(WorkerStep(w))
    /\ WF_vars(startPc = "spawning" /\ StartSpawn)
    /\ WF_vars(StopStep)
    /\ WF_vars(Tick)

LiveSpec == LiveInit /\ [][Next]_vars /\ Fairness

\* the Consumer with callers that may call Stop more than once; a panic ends
\* the program
StopTwiceNext ==
    \/ ~panicked /\ StartSpawn
    \/ ~panicked /\ StartAgain
    \/ ~panicked /\ CancelCtx
    \/ ~panicked /\ \E w \in WorkerIds : WorkerStep(w)
    \/ ~panicked /\ \E d \in StopDeadlines : StopCall(d)
    \/ ~panicked /\ StopStep
    \/ ~panicked /\ Tick
    \/ StopAgain

StopTwiceSpec == LiveInit /\ [][StopTwiceNext]_vars

(* -------------------------- NewConsumer alone ------------------------- *)
\* the counts a caller may set in a ConsumerConfig: unset (0), negative,
\* positive up to and beyond the defaults
ConfigValues == (-2)..MaxConfigValue

\* a caller about to call NewConsumer with some config, nothing else going on
ConfigInit ==
    /\ \E mc \in ConfigValues, mm \in ConfigValues :
          /\ rawCfg = Config(mc, mm)
          /\ cfg = Config(mc, mm)
    /\ receiverErr \in BOOLEAN
    /\ consumer = "none"
    /\ queue = 0
    /\ NotStarted
    /\ NewClient("none")
    /\ ExtraIdle

\* the call of NewConsumer: the defaults, then the receiver, then the Consumer
\* or the error
NewConsumerCall ==
    /\ consumer = "none"
    /\ cfg' = NewConsumer(rawCfg.MaxConcurrent, rawCfg.MaxMessages)
    /\ consumer' = IF NewConsumerFails(receiverErr) THEN "nil" ELSE "built"
    /\ UNCHANGED <<panicked, extraVars, clientVars, rawCfg, receiverErr, startVars, wg,
                   ctxCancelled, stopChan, workerVars, brokerVars,
                   receiverClosed, stopVars>>

ConfigNext == NewConsumerCall

ConfigSpec == ConfigInit /\ [][ConfigNext]_vars

(* --------------------------- SendOptions ------------------------------ *)
\* a map[string]interface{}: nil, or a set of key/value pairs
NilProps == [nil |-> TRUE, kv |-> {}]
Props(kv) == [nil |-> FALSE, kv |-> kv]

\* the three SendOption constructors
WithContentType(contentType) ==
    [kind |-> "ContentType", str |-> contentType, props |-> NilProps]
WithProperties(properties) ==
    [kind |-> "Properties", str |-> "", props |-> properties]
WithMessageID(messageID) ==
    [kind |-> "MessageID", str |-> messageID, props |-> NilProps]

\* &SendOptions{}
ZeroSendOptions == [ContentType |-> "", Properties |-> NilProps, MessageID |-> ""]

\* opt(sendOptions)
ApplyOption(so, opt) ==
    CASE opt.kind = "ContentType" -> [so EXCEPT !.ContentType = opt.str]
      [] opt.kind = "Properties" -> [so EXCEPT !.Properties = opt.props]
      [] opt.kind = "MessageID" -> [so EXCEPT !.MessageID = opt.str]

\* for _, opt := range opts { opt(sendOptions) }
RECURSIVE ApplyOptions(_, _)
ApplyOptions(so, opts) ==
    IF opts = <<>> THEN so
    ELSE ApplyOptions(ApplyOption(so, Head(opts)), Tail(opts))

\* the option lists and bodies the callers send with
OptionLists ==
    { <<>>,
      <<WithContentType("application/json"), WithProperties(Props({<<"k", "v">>}))>>,
      <<WithMessageID("m1"), WithContentType("text/plain"),
        WithProperties(Props({<<"k", "v">>, <<"n", "1">>})),
        WithProperties(Props({}))>> }
Bodies == {"b1"}
BodyLists == {<<>>, <<"b1", "b2">>}

(* ------------------------ MockServiceBusClient ------------------------ *)
\* the Message that Send builds at clock reading t
MockMessage(body, so, t) ==
    LET messageID == IF so.MessageID = "" THEN "mock-msg-" \o ToString(t)
                     ELSE so.MessageID
    IN  [ID |-> messageID, Body |-> body, LockToken |-> "lock-" \o messageID,
         ContentType |-> so.ContentType, Properties |-> so.Properties]

\* m.queues[q] = append(m.queues[q], msg), the queue being made if missing
MockAppend(qs, q, msg) ==
    [n \in DOMAIN qs \cup {q} |->
        IF n = q THEN Append(IF q \in DOMAIN qs THEN qs[q] ELSE <<>>, msg)
        ELSE qs[n]]

\* Send called once per body, in order; st holds the queues, the clock and
\* the messages built
RECURSIVE MockSendEach(_, _, _, _)
MockSendEach(st, q, bodies, opts) ==
    IF bodies = <<>> THEN st
    ELSE LET msg == MockMessage(Head(bodies), ApplyOptions(ZeroSendOptions, opts),
                                st.t + 1)
         IN  MockSendEach([qs |-> MockAppend(st.qs, q, msg), t |-> st.t + 1,
                           sent |-> Append(st.sent, msg)],
                          q, Tail(bodies), opts)

\* SendBatch(ctx, q, bodies, opts...); Send is the batch of one body
MockSendBatch(q, bodies, opts) ==
    /\ client = "mock"
    /\ now + Len(bodies) <= MaxSends
    /\ LET st == MockSendEach([qs |-> mockQueues, t |-> now, sent |-> <<>>],
                              q, bodies, opts)
       IN  /\ mockQueues' = st.qs
           /\ now' = st.t
           /\ sentLog' = [sentLog EXCEPT ![q] = @ \o st.sent]
    /\ optsLog' = [optsLog EXCEPT ![q] =
                      @ \o [i \in 1..Len(bodies) |->
                               [body |-> bodies[i], opts |-> opts]]]
    /\ UNCHANGED <<extraVars, consumerVars, lockVars, client, broker, recvLog, lastReceive, abandoned>>

MockSend(q, body, opts) == MockSendBatch(q, <<body>>, opts)

\* mutant: Receive takes as many messages as asked for, or the whole queue
\* if it holds fewer, from the end of the queue
MockTake_FromEnd(held, count) ==
    SubSeq(held, Len(held) - count + 1, Len(held))

\* queue[:count]
MockTake(held, count) == SubSeq(held, 1, count)

\* queue[count:]
MockRest(held, count) == SubSeq(held, count + 1, Len(held))

\* count := maxMessages; if count > len(queue) { count = len(queue) }
MockCount(maxMessages, len) == IF maxMessages > len THEN len ELSE maxMessages

\* Receive(ctx, q, maxMessages)
MockReceive(q, maxMessages) ==
    /\ client = "mock"
    /\ LET exists == q \in DOMAIN mockQueues
           held == IF exists THEN mockQueues[q] ELSE <<>>
           count == MockCount(maxMessages, Len(held))
           messages == IF ~exists \/ Len(held) = 0 THEN <<>>
                       ELSE MockTake(held, count)
       IN  /\ mockQueues' = IF ~exists \/ Len(held) = 0 THEN mockQueues
                            ELSE [mockQueues EXCEPT ![q] = MockRest(held, count)]
           /\ lastReceive' = [called |-> TRUE, queue |-> q, max |-> maxMessages,
                              had |-> Len(held), msgs |-> messages, err |-> "nil"]
           /\ recvLog' = [recvLog EXCEPT ![q] = @ \o messages]
    /\ UNCHANGED <<extraVars, consumerVars, lockVars, client, broker, now, sentLog, optsLog, abandoned>>

\* the lock tokens of the messages Receive has returned
ReceivedTokens ==
    UNION {{recvLog[q][i].LockToken : i \in 1..Len(recvLog[q])} : q \in QueueNames}

\* Complete(ctx, lockToken): returns nil and changes nothing
MockComplete(lockToken) ==
    /\ client = "mock"
    /\ lockToken \in ReceivedTokens
    /\ UNCHANGED vars

\* Abandon(ctx, lockToken): returns nil and changes nothing in the client
MockAbandon(lockToken) ==
    /\ client = "mock"
    /\ lockToken \in ReceivedTokens
    /\ Cardinality(abandoned \cup {lockToken}) <= MaxAbandons
    /\ abandoned' = abandoned \cup {lockToken}
    /\ UNCHANGED <<extraVars, consumerVars, lockVars, client, mockQueues, broker, now, sentLog,
                   optsLog, recvLog, lastReceive>>

(* ------------------------ AzureServiceBusClient ----------------------- *)
\* a *string
NilPtr == [nil |-> TRUE, val |-> ""]
Ptr(str) == [nil |-> FALSE, val |-> str]

\* the azservicebus.Message that Send builds from the body and the options
AzureMessage(body, so) ==
    [Body |-> body,
     ContentType |-> IF so.ContentType # "" THEN Ptr(so.ContentType) ELSE NilPtr,
     MessageID |-> IF so.MessageID # "" THEN Ptr(so.MessageID) ELSE NilPtr,
     ApplicationProperties |->
        IF ~so.Properties.nil THEN Props(so.Properties.kv) ELSE NilProps]

\* Send(ctx, q, body, opts...); ok is whether sender.SendMessage succeeds
AzureSend(q, body, opts, ok) ==
    /\ client = "azure"
    /\ now < MaxSends
    /\ IF ok
       THEN /\ broker' = [broker EXCEPT ![q] =
                   Append(@, AzureMessage(body, ApplyOptions(ZeroSendOptions, opts)))]
            /\ optsLog' = [optsLog EXCEPT ![q] =
                   Append(@, [body |-> body, opts |-> opts])]
            /\ now' = now + 1
       ELSE UNCHANGED <<broker, optsLog, now>>
    /\ UNCHANGED <<extraVars, consumerVars, lockVars, client, mockQueues, sentLog, recvLog,
                   lastReceive, abandoned>>

\* the azservicebus.ReceivedMessage the receiver hands out for the sent
\* message m as its n-th delivery; a map without entries may arrive as nil
\* or as an empty map
ReceivedMessage(m, n, nilIfEmpty) ==
    [Body |-> m.Body,
     MessageID |-> IF m.MessageID.nil THEN "" ELSE m.MessageID.val,
     LockToken |-> "token-" \o ToString(n),
     ContentType |-> m.ContentType,
     ApplicationProperties |->
        IF m.ApplicationProperties.kv = {}
        THEN (IF nilIfEmpty THEN NilProps ELSE Props({}))
        ELSE m.ApplicationProperties]

\* mutant: the application properties are not copied
ConvertAzureMessage_NoProperties(sbMsg) ==
    [ID |-> sbMsg.MessageID, Body |-> sbMsg.Body, LockToken |-> sbMsg.LockToken,
     ContentType |-> IF ~sbMsg.ContentType.nil THEN sbMsg.ContentType.val ELSE "",
     Properties |-> Props({})]

\* convertAzureMessage
ConvertAzureMessage(sbMsg) ==
    [ID |-> sbMsg.MessageID, Body |-> sbMsg.Body, LockToken |-> sbMsg.LockToken,
     ContentType |-> IF ~sbMsg.ContentType.nil THEN sbMsg.ContentType.val ELSE "",
     Properties |-> Props(IF ~sbMsg.ApplicationProperties.nil
                          THEN sbMsg.ApplicationProperties.kv ELSE {})]

\* a worker's range loop takes the next message of queue q from the receiver
\* and hands convertAzureMessage(sbMsg) to the handler
AzureDeliver(q, nilIfEmpty) ==
    /\ client = "azure"
    /\ broker[q] # <<>>
    /\ LET sbMsg == ReceivedMessage(Head(broker[q]), Len(recvLog[q]) + 1, nilIfEmpty)
       IN  recvLog' = [recvLog EXCEPT ![q] = Append(@, ConvertAzureMessage(sbMsg))]
    /\ broker' = [broker EXCEPT ![q] = Tail(@)]
    /\ UNCHANGED <<extraVars, consumerVars, lockVars, client, mockQueues, now, sentLog, optsLog,
                   lastReceive, abandoned>>

(* ------------------------- the clients alone -------------------------- *)
\* no Consumer has been asked for
NoConsumer ==
    /\ rawCfg = Config(0, 0)
    /\ cfg = Config(0, 0)
    /\ receiverErr = FALSE
    /\ consumer = "none"
    /\ queue = 0
    /\ NotStarted

ClientInit ==
    /\ NoConsumer
    /\ \E kind \in {"mock", "azure"} : NewClient(kind)
    /\ ExtraIdle

ClientNext ==
    \/ \E q \in QueueNames, body \in Bodies, opts \in OptionLists :
          MockSend(q, body, opts)
    \/ \E q \in QueueNames, bodies \in BodyLists, opts \in OptionLists :
          MockSendBatch(q, bodies, opts)
    \/ \E q \in QueueNames, maxMessages \in 0..MaxReceive :
          MockReceive(q, maxMessages)
    \/ \E lockToken \in ReceivedTokens : MockComplete(lockToken)
    \/ \E lockToken \in ReceivedTokens : MockAbandon(lockToken)
    \/ \E q \in QueueNames, body \in Bodies, opts \in OptionLists, ok \in BOOLEAN :
          AzureSend(q, body, opts, ok)
    \/ \E q \in QueueNames, nilIfEmpty \in BOOLEAN : AzureDeliver(q, nilIfEmpty)

ClientSpec == ClientInit /\ [][ClientNext]_vars

(* --------------------------- MockBlobClient --------------------------- *)
\* the prefixes and contents the callers use
Prefixes == {<<>>, <<"a">>, <<"a", "b">>, <<"b">>, <<"a", "b", "c">>}
Bytes == {1, 2}
RECURSIVE SeqsUpTo(_, _)
SeqsUpTo(S, n) ==
    IF n = 0 THEN {<<>>}
    ELSE SeqsUpTo(S, n - 1) \cup
         {Append(d, x) : d \in {e \in SeqsUpTo(S, n - 1) : Len(e) = n - 1}, x \in S}
BlobData == SeqsUpTo(Bytes, MaxBlobLen)

\* a name as the string it is
RECURSIVE NameString(_)
NameString(name) ==
    IF name = <<>> THEN "" ELSE Head(name) \o NameString(Tail(name))

\* fmt.Sprintf("mock://%s/%s", container, blobName)
BlobURL(container, name) == "mock://" \o container \o "/" \o NameString(name)

\* m.blobs[container] == nil
NoContainer(container) == container \notin DOMAIN blobs

\* if m.blobs[container] == nil { m.blobs[container] = make(map[string][]byte) }
WithContainer(bs, container) ==
    [c \in DOMAIN bs \cup {container} |->
        IF c \in DOMAIN bs THEN bs[c] ELSE [b \in {} |-> <<>>]]

\* held[blobName] = blobData
BlobStore(held, name, data) ==
    [b \in DOMAIN held \cup {name} |-> IF b = name THEN data ELSE held[b]]

\* mutant: Delete leaves the blob in the container
BlobRemove_Keep(held, name) == held

\* delete(held, blobName)
BlobRemove(held, name) == [b \in DOMAIN held \ {name} |-> held[b]]

\* Upload(ctx, container, blobName, data, contentType); ok is whether
\* io.ReadAll(data) succeeds
BlobUpload(container, name, data, ok) ==
    /\ blobs' = IF ok
                THEN [WithContainer(blobs, container) EXCEPT
                         ![container] = BlobStore(@, name, data)]
                ELSE WithContainer(blobs, container)
    /\ blobLast' = IF ok
                   THEN [blobLast EXCEPT
                            ![container][name] = [op |-> "upload", data |-> data]]
                   ELSE blobLast
    /\ blobRet' = [NoBlobCall EXCEPT
                      !.op = "Upload", !.container = container, !.name = name,
                      !.url = IF ok THEN BlobURL(container, name) ELSE "",
                      !.err = IF ok THEN "nil" ELSE "failed to read data"]
    /\ UNCHANGED <<consumerVars, clientVars, httpVars, rateVars, retryVars>>

\* Delete(ctx, container, blobName)
BlobDelete(container, name) ==
    /\ IF NoContainer(container)
       THEN /\ blobRet' = [NoBlobCall EXCEPT
                              !.op = "Delete", !.container = container,
                              !.name = name, !.err = "container not found"]
            /\ UNCHANGED <<blobs, blobLast>>
       ELSE /\ blobs' = [blobs EXCEPT ![container] = BlobRemove(@, name)]
            /\ blobLast' = [blobLast EXCEPT
                               ![container][name] = [op |-> "delete", data |-> <<>>]]
            /\ blobRet' = [NoBlobCall EXCEPT
                              !.op = "Delete", !.container = container,
                              !.name = name]
    /\ UNCHANGED <<consumerVars, clientVars, httpVars, rateVars, retryVars>>

\* what Get(ctx, container, blobName) returns: the bytes, or an error
MockBlobGet(container, name) ==
    IF NoContainer(container)
    THEN [data |-> <<>>, err |-> "container not found"]
    ELSE IF name \notin DOMAIN blobs[container]
    THEN [data |-> <<>>, err |-> "blob not found"]
    ELSE [data |-> blobs[container][name], err |-> "nil"]

\* what Exists(ctx, container, blobName) returns
MockBlobExists(container, name) ==
    IF NoContainer(container) THEN [exists |-> FALSE, err |-> "nil"]
    ELSE [exists |-> name \in DOMAIN blobs[container], err |-> "nil"]

\* prefix == "" || len(name) >= len(prefix) && name[:len(prefix)] == prefix
PrefixMatches(name, prefix) ==
    \/ prefix = <<>>
    \/ Len(name) >= Len(prefix) /\ SubSeq(name, 1, Len(prefix)) = prefix

\* the BlobInfo that List builds for a blob
BlobInfo(container, name, data) ==
    [Name |-> name, Size |-> Len(data), ContentType |-> "application/octet-stream",
     URL |-> BlobURL(container, name)]

\* what List(ctx, container, prefix) returns: the entries, in no particular
\* order (the order of a map's range)
MockBlobList(container, prefix) ==
    IF NoContainer(container) THEN [items |-> {}, err |-> "nil"]
    ELSE [items |-> {BlobInfo(container, b, blobs[container][b]) :
                        b \in {n \in DOMAIN blobs[container] : PrefixMatches(n, prefix)}},
          err |-> "nil"]

\* a call of Get
BlobGet(container, name) ==
    /\ blobRet' = [NoBlobCall EXCEPT
                      !.op = "Get", !.container = container, !.name = name,
                      !.data = MockBlobGet(container, name).data,
                      !.err = MockBlobGet(container, name).err]
    /\ UNCHANGED <<consumerVars, clientVars, httpVars, rateVars, retryVars, blobs, blobLast>>

\* a call of Exists
BlobExists(container, name) ==
    /\ blobRet' = [NoBlobCall EXCEPT
                      !.op = "Exists", !.container = container, !.name = name,
                      !.exists = MockBlobExists(container, name).exists,
                      !.err = MockBlobExists(container, name).err]
    /\ UNCHANGED <<consumerVars, clientVars, httpVars, rateVars, retryVars, blobs, blobLast>>

\* a call of List
BlobList(container, prefix) ==
    /\ blobRet' = [NoBlobCall EXCEPT
                      !.op = "List", !.container = container, !.name = prefix,
                      !.items = MockBlobList(container, prefix).items,
                      !.err = MockBlobList(container, prefix).err]
    /\ UNCHANGED <<consumerVars, clientVars, httpVars, rateVars, retryVars, blobs, blobLast>>

\* a new mock blob client, no Consumer and no ServiceBusClient in use
BlobInit ==
    /\ NoConsumer
    /\ NewClient("none")
    /\ NewMockBlobClient
    /\ HttpIdle
    /\ RateIdle
    /\ RetryIdle

BlobNext ==
    \/ \E c \in Containers, b \in BlobNames, d \in BlobData, ok \in BOOLEAN :
          BlobUpload(c, b, d, ok)
    \/ \E c \in Containers, b \in BlobNames : BlobDelete(c, b)
    \/ \E c \in Containers, b \in BlobNames : BlobGet(c, b)
    \/ \E c \in Containers, b \in BlobNames : BlobExists(c, b)
    \/ \E c \in Containers, p \in Prefixes : BlobList(c, p)

BlobSpec == BlobInit /\ [][BlobNext]_vars

(* ---------- ErrorHandlerMiddleware and SlowRequestMiddleware ---------- *)
\* the errors a handler sets with SetError: an AppError with its HTTP status
\* and its HandledByService flag
AppErrors ==
    {[HTTPStatus |-> st, HandledByService |-> h] : st \in {404, 500}, h \in BOOLEAN}

\* what a handler does: respond 200, respond 500 itself, or SetError, with
\* or without having written a response before
HandlerOutcomes ==
    {[kind |-> "respond", status |-> st, err |-> [HTTPStatus |-> 0, HandledByService |-> FALSE]] :
        st \in {200, 500}}
      \cup {[kind |-> k, status |-> 200, err |-> e] :
              k \in {"error", "respondThenError"}, e \in AppErrors}

\* the after-parts of the chain in the order they run: the middleware
\* registered last is the innermost and its c.Next() returns first
AfterOrder(first) ==
    IF first = "error" THEN <<"slow", "error">> ELSE <<"error", "slow">>

\* c.JSON(status, body): writes the status (and the body)
WriteJSON(w, status) == [w EXCEPT !.status = status, !.written = TRUE]

\* c.Header(ServiceHandledHeader, "true"): sets the response header
SetResponseHeader(w, value) == [w EXCEPT !.serviceHandled = value]

\* c.GetHeader(ServiceHandledHeader): the header of the request
GetHeader == httpReq.header

\* the before-parts of both middlewares (start := time.Now(); c.Next()) and
\* the handler itself
HandlerRun(h) ==
    /\ httpPc = "handler"
    /\ ginErrors' = IF h.kind = "respond" THEN ginErrors ELSE Append(ginErrors, h.err)
    /\ writer' = IF h.kind \in {"respond", "respondThenError"}
                 THEN WriteJSON(writer, h.status) ELSE writer
    /\ httpPending' = AfterOrder(httpReq.first)
    /\ httpPc' = "after"
    /\ UNCHANGED <<consumerVars, clientVars, blobVars, rateVars, retryVars, httpReq, alerts>>

\* where the request goes when an after-part has run
AfterPc == IF Len(httpPending) > 1 THEN "after" ELSE "done"

\* ErrorHandlerMiddleware after c.Next()
ErrorHandlerAfter ==
    /\ httpPc = "after"
    /\ Head(httpPending) = "error"
    /\ IF Len(ginErrors) > 0
       THEN LET appErr == ginErrors[Len(ginErrors)]
                marked == IF appErr.HandledByService
                          THEN SetResponseHeader(writer, "true") ELSE writer
            IN  writer' = IF ~marked.written
                          THEN WriteJSON(marked, appErr.HTTPStatus) ELSE marked
       ELSE writer' = writer
    /\ httpPending' = Tail(httpPending)
    /\ httpPc' = AfterPc
    /\ UNCHANGED <<consumerVars, clientVars, blobVars, rateVars, retryVars, httpReq, ginErrors, alerts>>

\* the calls SlowRequestMiddleware makes for a latency, a status code and the
\* serviceHandled flag
SlowRequestCalls(latencyMs, statusCode, serviceHandled) ==
    (IF latencyMs > httpReq.slowThresholdMs /\ ~serviceHandled
     THEN (IF httpReq.telemetryClient THEN {"RecordSlowRequest"} ELSE {})
            \cup (IF httpReq.slackClient THEN {"SendSlowRequestAlert"} ELSE {})
     ELSE {})
      \cup
    (IF statusCode >= 500 /\ ~serviceHandled
     THEN (IF httpReq.telemetryClient THEN {"RecordError"} ELSE {})
            \cup (IF httpReq.slackClient THEN {"SendErrorAlert"} ELSE {})
     ELSE {})

\* SlowRequestMiddleware after c.Next()
SlowRequestAfter ==
    /\ httpPc = "after"
    /\ Head(httpPending) = "slow"
    /\ LET statusCode == writer.status
           serviceHandled == GetHeader = "true"
       IN  alerts' = alerts \cup
                       SlowRequestCalls(httpReq.latencyMs, statusCode, serviceHandled)
    /\ httpPending' = Tail(httpPending)
    /\ httpPc' = AfterPc
    /\ UNCHANGED <<consumerVars, clientVars, blobVars, rateVars, retryVars, httpReq, ginErrors, writer>>

\* a request arrives at a router with both middlewares in use
HttpInit ==
    /\ NoConsumer
    /\ NewClient("none")
    /\ NewMockBlobClient
    /\ RateIdle
    /\ RetryIdle
    /\ \E first \in {"error", "slow"}, header \in {"", "true"},
          latencyMs \in 0..MaxLatency, slowThresholdMs \in 0..MaxLatency,
          telemetry \in BOOLEAN, slack \in BOOLEAN :
          httpReq = Request(first, header, latencyMs, slowThresholdMs, telemetry, slack)
    /\ httpPc = "handler"
    /\ httpPending = <<>>
    /\ NewContext

HttpNext ==
    \/ \E h \in HandlerOutcomes : HandlerRun(h)
    \/ ErrorHandlerAfter
    \/ SlowRequestAfter

HttpSpec == HttpInit /\ [][HttpNext]_vars

(* -------------------------- RateLimitMiddleware ----------------------- *)
\* cfg.RPS is one token a minute: the 3 minutes after which the cleanup
\* goroutine deletes a client, in clock ticks
CleanupAge == CleanupMinutes * RefillTicks

\* the time since lastSeen is followed up to just beyond the cleanup age
IdleCap == CleanupAge + 1

\* rate.NewLimiter(rate.Limit(cfg.RPS), cfg.Burst): a full bucket
NewLimiter == [tokens |-> rlBurst * RefillTicks, idle |-> 0]

\* mutant: one limiter for all clients
ClientKey_Shared(ip) == "all"

\* the key of a client in the map: c.ClientIP()
ClientKey(ip) == ip

\* limiter.Allow(): whether a whole token is there
Allow(limiter) == limiter.tokens >= RefillTicks

\* the limiter after Allow(): the token is taken if there was one
AfterAllow(limiter) ==
    IF Allow(limiter) THEN [limiter EXCEPT !.tokens = @ - RefillTicks] ELSE limiter

\* a request from ip goes through the middleware: the client is made if it
\* is not found, lastSeen is set, and the request is passed to the next
\* handler (which answers 200) or aborted with 429
RateLimit(ip) ==
    /\ rlRun[ip].n <= rlBurst + 1
    /\ LET key == ClientKey(ip)
           found == key \in DOMAIN rlClients
           limiter == IF found THEN [rlClients[key] EXCEPT !.idle = 0] ELSE NewLimiter
           run == rlRun[ip]
       IN  /\ rlClients' = [k \in DOMAIN rlClients \cup {key} |->
                               IF k = key THEN AfterAllow(limiter) ELSE rlClients[k]]
           /\ rlLast' = [ip |-> ip, status |-> IF Allow(limiter) THEN 200 ELSE 429,
                         handler |-> Allow(limiter)]
           /\ rlRun' = [rlRun EXCEPT ![ip] =
                           [start |-> IF run.n = 0 THEN limiter.tokens \div RefillTicks
                                      ELSE run.start,
                            fresh |-> IF run.n = 0 THEN ~found ELSE run.fresh,
                            n |-> run.n + 1,
                            passed |-> run.passed + (IF Allow(limiter) THEN 1 ELSE 0)]]
    /\ UNCHANGED <<consumerVars, clientVars, blobVars, httpVars, retryVars, rlBurst>>

\* d clock ticks pass: every limiter gains tokens up to its burst
RateAdvance(d) ==
    /\ rlClients' = [k \in DOMAIN rlClients |->
                        [tokens |-> Min(rlClients[k].tokens + d, rlBurst * RefillTicks),
                         idle |-> Min(rlClients[k].idle + d, IdleCap)]]
    /\ rlRun' = [ip \in IPs |-> NoRun]
    /\ UNCHANGED <<consumerVars, clientVars, blobVars, httpVars, retryVars, rlBurst, rlLast>>

\* the cleanup goroutine wakes up: the clients not seen for more than 3
\* minutes are deleted
RateCleanup ==
    /\ rlClients' = [k \in {j \in DOMAIN rlClients : ~(rlClients[j].idle > CleanupAge)} |->
                        rlClients[k]]
    /\ UNCHANGED <<consumerVars, clientVars, blobVars, httpVars, retryVars, rlBurst, rlLast, rlRun>>

RateInit ==
    /\ NoConsumer
    /\ NewClient("none")
    /\ NewMockBlobClient
    /\ HttpIdle
    /\ RetryIdle
    /\ \E burst \in 0..MaxBurst : NewRateLimit(burst)

RateNext ==
    \/ \E ip \in IPs : RateLimit(ip)
    \/ \E d \in 1..RefillTicks : RateAdvance(d)
    \/ RateCleanup

RateSpec == RateInit /\ [][RateNext]_vars

(* --------------------- Retry and RetryWithResult ---------------------- *)
\* math.Pow(x, y) for a whole y >= 0
RECURSIVE Pow(_, _)
Pow(x, y) == IF y = 0 THEN 1 ELSE x * Pow(x, y - 1)

\* mutant: the delay is not capped
CalculateDelay_NoCap(config, a) == config.InitialDelay * Pow(config.Multiplier, a)

\* calculateDelay(config, attempt)
CalculateDelay(config, a) ==
    LET delay == config.InitialDelay * Pow(config.Multiplier, a)
        maxDelay == config.MaxDelay
    IN  IF delay > maxDelay THEN maxDelay ELSE delay

\* ctx.Err() of a cancelled context
CtxErr == "context canceled"

\* the error of the n-th invocation of fn, and its result
FnErr(n) == "err" \o ToString(n)
FnResult(n) == "result" \o ToString(n)

\* mutant: the loop goes on after a success
FnSucceeded_Never(ok) == FALSE

\* err == nil after the invocation of fn
FnSucceeded(ok) == ok

\* mutant: the context is not consulted before an attempt
CtxDone_Ignored == FALSE

\* case <-ctx.Done() is ready
CtxDone == retryCtx

\* the three returns
ReturnNil(n) ==
    [kind |-> "nil", err |-> "nil",
     result |-> IF retryCfg.withResult THEN FnResult(n) ELSE "zero"]
ReturnCtx == [kind |-> "ctx", err |-> CtxErr, result |-> "zero"]
ReturnMax(wrapped) == [kind |-> "max", err |-> wrapped, result |-> "zero"]

\* the top of the for loop: the loop condition, then the select on ctx.Done()
\* with its default
RetryLoop ==
    /\ retryPc = "loop"
    /\ IF ~(attempt < retryCfg.MaxAttempts)
       THEN /\ retryPc' = "returned"
            /\ retryRet' = ReturnMax(lastErr)
       ELSE IF CtxDone
       THEN /\ retryPc' = "returned"
            /\ retryRet' = ReturnCtx
       ELSE /\ retryPc' = "fn"
            /\ retryRet' = retryRet
    /\ UNCHANGED <<consumerVars, clientVars, blobVars, httpVars, rateVars,
                   retryCfg, attempt, fnLog, waits, lastErr, retryCtx, cancelAt>>

\* fn returns: nil ends Retry; an error is kept in lastErr and is followed by
\* the wait before the next attempt or, after the last attempt, by the end of
\* the loop and the return of the wrapped error
RetryFn(ok) ==
    /\ retryPc = "fn"
    /\ LET n == Len(fnLog) + 1
       IN  /\ fnLog' = Append(fnLog, IF ok THEN "ok" ELSE FnErr(n))
           /\ IF FnSucceeded(ok)
              THEN /\ retryPc' = "returned"
                   /\ retryRet' = ReturnNil(n)
                   /\ UNCHANGED <<lastErr, waits, attempt>>
              ELSE /\ lastErr' = IF ok THEN "nil" ELSE FnErr(n)
                   /\ IF attempt < retryCfg.MaxAttempts - 1
                      THEN /\ waits' = Append(waits, CalculateDelay(retryCfg, attempt))
                           /\ retryPc' = "waiting"
                           /\ UNCHANGED <<retryRet, attempt>>
                      ELSE /\ attempt' = attempt + 1
                           /\ retryPc' = "returned"
                           /\ retryRet' = ReturnMax(lastErr')
                           /\ waits' = waits
    /\ UNCHANGED <<consumerVars, clientVars, blobVars, httpVars, rateVars,
                   retryCfg, retryCtx, cancelAt>>

\* case <-time.After(delay): the next attempt
RetryWaitDone ==
    /\ retryPc = "waiting"
    /\ attempt' = attempt + 1
    /\ retryPc' = "loop"
    /\ UNCHANGED <<consumerVars, clientVars, blobVars, httpVars, rateVars,
                   retryCfg, fnLog, waits, lastErr, retryRet, retryCtx, cancelAt>>

\* case <-ctx.Done() of the wait
RetryWaitCancelled ==
    /\ retryPc = "waiting"
    /\ retryCtx
    /\ retryPc' = "returned"
    /\ retryRet' = ReturnCtx
    /\ UNCHANGED <<consumerVars, clientVars, blobVars, httpVars, rateVars,
                   retryCfg, attempt, fnLog, waits, lastErr, retryCtx, cancelAt>>

\* the caller cancels the context while Retry runs
RetryCancel ==
    /\ retryPc \in {"loop", "fn", "waiting"}
    /\ ~retryCtx
    /\ retryCtx' = TRUE
    /\ cancelAt' = IF retryPc = "loop" /\ ~(attempt < retryCfg.MaxAttempts)
                   THEN "end" ELSE retryPc
    /\ UNCHANGED <<consumerVars, clientVars, blobVars, httpVars, rateVars,
                   retryCfg, retryPc, attempt, fnLog, waits, lastErr, retryRet>>

\* the configs the callers use: MaxAttempts unset or positive, delays with a
\* negative one among them, whole multipliers
RetryConfigs ==
    {RetryConfig(ma, id, md, mult, wr) :
        ma \in 0..MaxRetryAttempts, id \in (-1)..MaxRetryDelay,
        md \in 0..MaxRetryDelay, mult \in 0..MaxMultiplier, wr \in BOOLEAN}

RetryInit ==
    /\ NoConsumer
    /\ NewClient("none")
    /\ NewMockBlobClient
    /\ HttpIdle
    /\ RateIdle
    /\ \E config \in RetryConfigs, cancelled \in BOOLEAN : RetryCalled(config, cancelled)

RetryNext ==
    \/ RetryLoop
    \/ \E ok \in BOOLEAN : RetryFn(ok)
    \/ RetryWaitDone
    \/ RetryWaitCancelled
    \/ RetryCancel

RetrySpec == RetryInit /\ [][RetryNext]_vars

(* --------------- concurrent callers of the mock client ---------------- *)
\* the messages queue q of the mock client holds (none if it was never made)
Held(q) == IF q \in DOMAIN mockQueues THEN mockQueues[q] ELSE <<>>

\* mutant: Lock does not wait for the holder
MuFree_Always == TRUE

\* m.mu.Lock() can be taken
MuFree == mu = ""

\* the calls of Send that have not read the clock yet
PendingSends ==
    {p \in Callers : callers[p].op = "Send" /\ callers[p].pc \in {"lock", "read"}}

\* goroutine p calls Send(ctx, q, body, opts...)
ConcSend(p, q, body, opts) ==
    /\ client = "mock"
    /\ callers[p].pc = "idle"
    /\ now + Cardinality(PendingSends) < MaxSends
    /\ callers' = [callers EXCEPT ![p] =
                      [IdleCaller EXCEPT !.pc = "lock", !.op = "Send", !.q = q,
                                         !.body = body, !.opts = opts]]
    /\ UNCHANGED <<extraVars, consumerVars, client, mockQueues, broker, now,
                   sentLog, optsLog, recvLog, lastReceive, abandoned, mu>>

\* goroutine p calls Receive(ctx, q, maxMessages)
ConcReceive(p, q, maxMessages) ==
    /\ client = "mock"
    /\ callers[p].pc = "idle"
    /\ callers' = [callers EXCEPT ![p] =
                      [IdleCaller EXCEPT !.pc = "lock", !.op = "Receive", !.q = q,
                                         !.max = maxMessages]]
    /\ UNCHANGED <<extraVars, consumerVars, client, mockQueues, broker, now,
                   sentLog, optsLog, recvLog, lastReceive, abandoned, mu>>

\* m.mu.Lock()
ConcLock(p) ==
    /\ callers[p].pc = "lock"
    /\ MuFree
    /\ mu' = p
    /\ callers' = [callers EXCEPT ![p].pc = "read"]
    /\ UNCHANGED <<extraVars, consumerVars, client, mockQueues, broker, now,
                   sentLog, optsLog, recvLog, lastReceive, abandoned>>

\* if m.queues[q] == nil { m.queues[q] = make([]Message, 0) }
MockEnsure(qs, q) ==
    [n \in DOMAIN qs \cup {q} |-> IF n \in DOMAIN qs THEN qs[n] ELSE <<>>]

\* Send up to the message it builds (the queue is made if missing, the
\* options are applied, the clock is read); Receive up to the messages it is
\* going to return, taken from the queue as it reads it
ConcRead(p) ==
    /\ callers[p].pc = "read"
    /\ LET c == callers[p]
           held == Held(c.q)
           count == MockCount(c.max, Len(held))
       IN  IF c.op = "Send"
           THEN /\ mockQueues' = MockEnsure(mockQueues, c.q)
                /\ now' = now + 1
                /\ callers' = [callers EXCEPT
                      ![p].pc = "write",
                      ![p].out = <<MockMessage(c.body,
                                               ApplyOptions(ZeroSendOptions, c.opts),
                                               now + 1)>>]
           ELSE /\ UNCHANGED <<mockQueues, now>>
                /\ callers' = [callers EXCEPT
                      ![p].pc = IF c.q \notin DOMAIN mockQueues \/ Len(held) = 0
                                THEN "unlock" ELSE "write",
                      ![p].local = held,
                      ![p].out = IF c.q \notin DOMAIN mockQueues \/ Len(held) = 0
                                 THEN <<>> ELSE MockTake(held, count)]
    /\ UNCHANGED <<extraVars, consumerVars, client, broker, sentLog, optsLog,
                   recvLog, lastReceive, abandoned, mu>>

\* Send: m.queues[q] = append(m.queues[q], msg);
\* Receive: m.queues[q] = queue[count:], queue being what was read
ConcWrite(p) ==
    /\ callers[p].pc = "write"
    /\ LET c == callers[p]
       IN  IF c.op = "Send"
           THEN /\ mockQueues' = MockAppend(mockQueues, c.q, c.out[1])
                /\ sentLog' = [sentLog EXCEPT ![c.q] = Append(@, c.out[1])]
                /\ optsLog' = [optsLog EXCEPT ![c.q] =
                                  Append(@, [body |-> c.body, opts |-> c.opts])]
           ELSE /\ mockQueues' = [mockQueues EXCEPT ![c.q] =
                                     MockRest(c.local, Len(c.out))]
                /\ UNCHANGED <<sentLog, optsLog>>
    /\ callers' = [callers EXCEPT ![p].pc = "unlock"]
    /\ UNCHANGED <<extraVars, consumerVars, client, broker, now, recvLog,
                   lastReceive, abandoned, mu>>

\* the deferred m.mu.Unlock() and the return
ConcUnlock(p) ==
    /\ callers[p].pc = "unlock"
    /\ mu' = ""
    /\ LET c == callers[p]
       IN  IF c.op = "Receive"
           THEN /\ recvLog' = [recvLog EXCEPT ![c.q] = @ \o c.out]
                /\ lastReceive' = [called |-> TRUE, queue |-> c.q, max |-> c.max,
                                   had |-> Len(c.local), msgs |-> c.out, err |-> "nil"]
           ELSE UNCHANGED <<recvLog, lastReceive>>
    /\ callers' = [callers EXCEPT ![p] = IdleCaller]
    /\ UNCHANGED <<extraVars, consumerVars, client, mockQueues, broker, now,
                   sentLog, optsLog, abandoned>>

ConcInit ==
    /\ NoConsumer
    /\ NewClient("mock")
    /\ ExtraIdle

ConcNext ==
    \/ \E p \in Callers, q \in QueueNames, body \in Bodies, opts \in OptionLists :
          ConcSend(p, q, body, opts)
    \/ \E p \in Callers, q \in QueueNames, maxMessages \in 0..MaxReceive :
          ConcReceive(p, q, maxMessages)
    \/ \E p \in Callers : ConcLock(p)
    \/ \E p \in Callers : ConcRead(p)
    \/ \E p \in Callers : ConcWrite(p)
    \/ \E p \in Callers : ConcUnlock(p)

ConcSpec == ConcInit /\ [][ConcNext]_vars

(* ------------------------------- claims ------------------------------- *)
\* message i of worker w's batch has been acknowledged (the worker is past it)
Acked(w, i) == i \in 1..Len(batch[w]) /\ i < idx[w]

Exited == {w \in WorkerIds : pc[w] = "exited"}
InBatch(w) == pc[w] \in {"handler", "ack", "hung"}

\* C1: for a message whose handler returned nil, complete is called exactly
\* once and abandon never: never more than one complete, no abandon, and
\* exactly one complete once the worker is past the message.
C1_CompleteOnSuccess ==
    \A w \in WorkerIds : \A i \in 1..Len(batch[w]) :
        batch[w][i].res = "ok" =>
            /\ batch[w][i].nA = 0
            /\ batch[w][i].nC <= 1
            /\ Acked(w, i) => batch[w][i].nC = 1

\* a message was handled successfully and acknowledged while another worker
\* is in the middle of its own batch
C1_Witness ==
    \E w \in WorkerIds, v \in WorkerIds :
        /\ w # v
        /\ Acked(w, 1) /\ batch[w][1].res = "ok" /\ batch[w][1].nC = 1
        /\ pc[v] \in {"handler", "ack"}

\* C2: for a message whose handler returned an error, abandon is called
\* exactly once and complete never.
C2_AbandonOnFailure ==
    \A w \in WorkerIds : \A i \in 1..Len(batch[w]) :
        batch[w][i].res = "err" =>
            /\ batch[w][i].nC = 0
            /\ batch[w][i].nA <= 1
            /\ Acked(w, i) => batch[w][i].nA = 1

\* a message failed in the handler and was abandoned while another worker is
\* in the middle of its own batch
C2_Witness ==
    \E w \in WorkerIds, v \in WorkerIds :
        /\ w # v
        /\ Acked(w, 1) /\ batch[w][1].res = "err" /\ batch[w][1].nA = 1
        /\ pc[v] \in {"handler", "ack"}

\* C3: no received message is left unacknowledged: a worker outside its
\* range loop holds no unacknowledged message; a worker gets past a message
\* only with the handler's result recorded and exactly one call made for it;
\* and a worker that holds unacknowledged messages eventually holds none,
\* unless one of its handler invocations never returns, whatever signals are
\* set meanwhile.
C3_NoMessageLeftUnacked ==
    /\ [](\A w \in WorkerIds : ~InBatch(w) => idx[w] > Len(batch[w]))
    /\ [](\A w \in WorkerIds : \A i \in 1..Len(batch[w]) :
             Acked(w, i) => /\ batch[w][i].res # "none"
                            /\ batch[w][i].nC + batch[w][i].nA = 1)
    /\ \A w \in 0..(MaxWorkers - 1) :
          (idx[w] <= Len(batch[w])) ~> (pc[w] = "hung" \/ idx[w] > Len(batch[w]))

\* Stop has returned and the context is cancelled while a worker acknowledged
\* the last message of a batch of several
C3_Witness ==
    \E w \in WorkerIds :
        /\ stopPc = "returned" /\ ctxCancelled
        /\ Len(batch[w]) >= 2 /\ idx[w] > Len(batch[w])
        /\ \A i \in 1..Len(batch[w]) : batch[w][i].nC + batch[w][i].nA = 1

\* C4 as stated: when Stop, called with every worker idle, has returned,
\* every worker has exited.
C4_Original ==
    stopPc = "returned" /\ idleStop => Spawned \subseteq Exited

\* C4 amended: Stop called with every worker idle eventually returns; when it
\* returns by observing that the workers are done (not by its timeout or the
\* caller's deadline), every worker has exited, and the receiver is closed only
\* after the workers were signalled and have exited (the workers of a later
\* call of Start are not the ones that Stop waited for).
C4_Amended ==
    /\ [](idleStop /\ receiverClosed /\ stopVia = "done" /\ starts = 0 =>
             stopChan /\ stopPc = "returned" /\ Spawned \subseteq Exited)
    /\ (idleStop /\ stopPc = "waiting") ~> (stopPc = "returned")

\* Stop, called with two idle workers, returned after both had exited
C4_Witness ==
    /\ idleStop /\ stopPc = "returned" /\ stopVia = "done"
    /\ Cardinality(Spawned) = 2 /\ Spawned \subseteq Exited

\* C5: Stop always returns, also when a handler never returns: it returns by
\* the done channel, or when the caller's deadline has run out, or when the
\* 30-unit timer has run out, whichever happens first, and the receiver is
\* closed when it returns; with a handler that never returns it does not
\* return by the done channel.
C5_StopTerminates ==
    /\ (stopPc = "waiting") ~> (stopPc = "returned")
    /\ [][stopPc = "waiting" /\ stopPc' = "returned" =>
             /\ receiverClosed'
             /\ stopVia' = "done" => done
             /\ stopVia' = "ctx" => stopCtx = 0
             /\ stopVia' = "timeout" => stopTimer = 0]_vars
    /\ [](stopPc = "returned" /\ (\E w \in WorkerIds : pc[w] = "hung") =>
             stopVia # "done" /\ receiverClosed)

\* a handler never returned and Stop returned by its 30-unit timeout
C5_Witness ==
    /\ stopPc = "returned" /\ stopVia = "timeout" /\ receiverClosed
    /\ \E w \in WorkerIds : pc[w] = "hung"

\* C6: once Start has returned, exactly MaxConcurrent workers have been
\* spawned, with ids 0..MaxConcurrent-1, each counted once in the wait group,
\* and never more than MaxConcurrent receive calls are outstanding.
C6_ExactlyNWorkers ==
    /\ startPc = "returned" =>
          /\ Spawned = 0..(cfg.MaxConcurrent - 1)
          /\ Cardinality(Spawned) = cfg.MaxConcurrent
          /\ wg + Cardinality(Exited) = cfg.MaxConcurrent
    /\ Cardinality(Spawned) <= cfg.MaxConcurrent
    /\ Cardinality({w \in WorkerIds : pc[w] = "receiving"}) <= cfg.MaxConcurrent

\* Start has returned with MaxConcurrent = 2 and both workers have a receive
\* call outstanding at the same time
C6_Witness ==
    /\ startPc = "returned" /\ cfg.MaxConcurrent = 2
    /\ Cardinality({w \in WorkerIds : pc[w] = "receiving"}) = 2

\* C7: after a failed receive the worker sleeps the fixed backoff interval,
\* leaves the sleep only when the interval has run out and only for the top of
\* its loop, and from there issues a receive call again unless the stop signal
\* or the cancellation is set.
C7_BackoffAndRetry ==
    /\ [][\A w \in WorkerIds :
            /\ pc[w] # "backoff" /\ pc'[w] = "backoff" =>
                  pc[w] = "receiving" /\ timer'[w] = BackoffInterval
            /\ pc[w] = "backoff" /\ pc'[w] # "backoff" =>
                  pc'[w] = "loop" /\ timer[w] = 0]_vars
    /\ \A w \in 0..(MaxWorkers - 1) :
          (pc[w] = "backoff") ~> (pc[w] = "receiving" \/ stopChan \/ ctxCancelled)

\* a worker whose receive failed has slept the interval and is about to poll
\* again, no signal being set
C7_Witness ==
    \E w \in WorkerIds :
        pc[w] = "backoff" /\ timer[w] = 0 /\ ~stopChan /\ ~ctxCancelled

\* C8: a worker that has exited did so because the stop signal or the
\* cancellation was set, and Start returns nil.
C8_ExitOnlyOnSignal ==
    /\ \A w \in WorkerIds : pc[w] = "exited" => stopChan \/ ctxCancelled
    /\ startPc = "returned" => startRet = "nil"

\* a worker has exited on the caller's cancellation alone, after messages were
\* handed out
C8_Witness ==
    \E w \in WorkerIds :
        pc[w] = "exited" /\ ctxCancelled /\ ~stopChan /\ issued > 0

\* C9: in a batch where the handler failed for one message and succeeded for
\* another, the first is abandoned (once, not completed) and the second
\* completed (once, not abandoned), in either order, and a worker that has
\* finished a batch is at the top of its loop.
C9_FailureIsLocal ==
    \A w \in WorkerIds :
        /\ \A i, j \in 1..Len(batch[w]) :
              Acked(w, i) /\ Acked(w, j)
                /\ batch[w][i].res = "err" /\ batch[w][j].res = "ok" =>
                  /\ batch[w][i].nA = 1 /\ batch[w][i].nC = 0
                  /\ batch[w][j].nC = 1 /\ batch[w][j].nA = 0
        /\ Len(batch[w]) > 0 /\ idx[w] > Len(batch[w]) => pc[w] = "loop"

\* a worker finished a batch whose first message failed and whose second
\* succeeded
C9_Witness ==
    \E w \in WorkerIds :
        /\ Len(batch[w]) >= 2 /\ idx[w] > Len(batch[w]) /\ pc[w] = "loop"
        /\ batch[w][1].res = "err" /\ batch[w][1].nA = 1
        /\ batch[w][2].res = "ok" /\ batch[w][2].nC = 1

\* the scenario of C10 so far: two workers, batches of up to 5, the only
\* messages handed out are the 3 of one worker's batch, no handler error
Scenario10(w) ==
    /\ cfg.MaxConcurrent = 2 /\ cfg.MaxMessages = 5
    /\ issued = 3 /\ Len(batch[w]) = 3
    /\ \A i \in 1..3 : batch[w][i].res # "err"

\* C10: in that scenario no message is abandoned, none is completed twice,
\* the other worker holds no message, all 3 are completed once the worker is
\* out of its range loop, and no worker has exited unless Stop was called or
\* the context cancelled.
C10_Scenario ==
    \A w \in WorkerIds : Scenario10(w) =>
        /\ \A i \in 1..3 : batch[w][i].nA = 0 /\ batch[w][i].nC <= 1
        /\ ~InBatch(w) => \A i \in 1..3 : batch[w][i].nC = 1
        /\ \A v \in WorkerIds \ {w} : batch[v] = <<>>
        /\ ~stopChan /\ ~ctxCancelled => Exited = {}

\* all 3 messages are completed, the other worker is polling, Stop not called
C10_Witness ==
    \E w \in WorkerIds, v \in WorkerIds :
        /\ Scenario10(w) /\ pc[w] = "loop"
        /\ \A i \in 1..3 : batch[w][i].nC = 1
        /\ v # w /\ pc[v] = "receiving"
        /\ ~stopChan /\ ~ctxCancelled /\ startPc = "returned"

\* C11: a worker at the top of its loop while the stop signal or the caller's
\* cancellation is set exits (counting itself out of the wait group) and does
\* not issue a receive call; a receive call is only issued from the top of the
\* loop with neither signal set.
C11_NoReceiveAfterSignal ==
    [][\A w \in WorkerIds :
          /\ pc[w] = "loop" /\ (stopChan \/ ctxCancelled) /\ pc'[w] # pc[w] =>
                pc'[w] = "exited" /\ wg' = wg - 1
          /\ pc[w] # "receiving" /\ pc'[w] = "receiving" =>
                pc[w] = "loop" /\ ~stopChan /\ ~ctxCancelled]_vars

\* a worker has exited on the caller's cancellation alone while messages were
\* waiting in the queue
C11_Witness ==
    \E w \in WorkerIds :
        pc[w] = "exited" /\ ctxCancelled /\ ~stopChan /\ queue > 0

\* a worker that holds no message and has no receive call outstanding
Quiet(w) == pc[w] \in {"none", "loop", "timedOut", "exited"}

\* C12: once Stop has been invoked the stop signal stays set; from then on a
\* worker that holds no message and has no receive call outstanding, one
\* spawned by a later call of Start included, never issues a receive call,
\* invokes the handler or acknowledges; and once all workers are such, no
\* message is delivered or returned to the queue any more.
C12_StoppedIsTerminal ==
    [][/\ stopChan => stopChan'
       /\ \A w \in WorkerIds : stopChan /\ Quiet(w) => Quiet(w)'
       /\ stopChan /\ (\A w \in WorkerIds : Quiet(w)) =>
             /\ queue' = queue /\ issued' = issued
             /\ \A w \in WorkerIds : batch'[w] \in {batch[w], <<>>}]_vars

\* Start was called again after Stop had returned, and its two workers have
\* exited with messages still waiting in the queue
C12_Witness ==
    /\ starts = 1 /\ startPc = "returned" /\ stopPc = "returned"
    /\ cfg.MaxConcurrent = 2 /\ Spawned = Exited /\ Cardinality(Exited) = 2
    /\ queue > 0

\* the number of acknowledgment calls made for message i of worker w's batch
Calls(w, i) == batch[w][i].nC + batch[w][i].nA

\* C13: a worker goes through its batch one message at a time and in the
\* order of the batch: every message before the current one has its handler
\* result and its acknowledgment call, no message after it has been touched,
\* the handler runs for the current message only while nothing has been done
\* for it, the acknowledgment only once the handler has returned, and the
\* current position moves by one message at a time.
C13_SerialInOrder ==
    /\ [](\A w \in WorkerIds :
            /\ idx[w] \in 1..(Len(batch[w]) + 1)
            /\ \A i \in 1..Len(batch[w]) :
                  /\ i < idx[w] => batch[w][i].res # "none" /\ Calls(w, i) = 1
                  /\ i > idx[w] => batch[w][i].res = "none" /\ Calls(w, i) = 0
            /\ InBatch(w) =>
                  /\ idx[w] <= Len(batch[w])
                  /\ Calls(w, idx[w]) = 0
                  /\ batch[w][idx[w]].res = "none" <=> pc[w] # "ack")
    /\ [][\A w \in WorkerIds :
            /\ idx'[w] # idx[w] => idx'[w] = idx[w] + 1 \/ idx'[w] = 1
            /\ pc[w] # "handler" /\ pc'[w] = "handler" =>
                  \/ pc[w] = "receiving" /\ idx'[w] = 1
                  \/ pc[w] = "ack" /\ idx'[w] = idx[w] + 1
                       /\ batch'[w][idx[w]].nC + batch'[w][idx[w]].nA = 1]_vars

\* the handler runs for the third message of a batch, the first two being
\* acknowledged, one completed and one abandoned
C13_Witness ==
    \E w \in WorkerIds :
        /\ pc[w] = "handler" /\ idx[w] = 3 /\ Len(batch[w]) = 3
        /\ batch[w][1].nA = 1 /\ batch[w][2].nC = 1
        /\ batch[w][3].res = "none"

\* C14: an acknowledgment call that fails (any call on the closed receiver,
\* an abandon that does not bring the message back to the queue) is the only
\* call made for its message: the worker goes on to the handler of the next
\* message of the batch, or to the top of its loop after the last one, does
\* not exit and does not sleep; and no message ever gets a second call.
C14_AckFailureIgnored ==
    /\ [](\A w \in WorkerIds : \A i \in 1..Len(batch[w]) : Calls(w, i) <= 1)
    /\ [][\A w \in WorkerIds :
            (/\ pc[w] = "ack" /\ idx'[w] # idx[w]
             /\ \/ receiverClosed
                \/ batch[w][idx[w]].res = "err" /\ queue' = queue) =>
                /\ pc'[w] = IF idx[w] < Len(batch[w]) THEN "handler" ELSE "loop"
                /\ batch'[w][idx[w]].nC = IF batch[w][idx[w]].res = "ok" THEN 1 ELSE 0
                /\ batch'[w][idx[w]].nA = IF batch[w][idx[w]].res = "err" THEN 1 ELSE 0
                /\ idx'[w] = idx[w] + 1
                /\ wg' = wg /\ timer'[w] = 0]_vars

\* the abandon call for the first message of a batch failed (every message
\* ever delivered is in this batch and the queue is empty) and the worker
\* runs the handler for the second message
C14_Witness ==
    \E w \in WorkerIds :
        /\ pc[w] = "handler" /\ idx[w] = 2
        /\ batch[w][1].res = "err" /\ batch[w][1].nA = 1 /\ batch[w][1].nC = 0
        /\ issued = Len(batch[w]) /\ queue = 0

\* C15: a receive call that ends in a timeout or a cancellation takes the
\* worker to the continue of that branch and from there to the top of its
\* loop and nowhere else: no sleep, no message held, nothing delivered or
\* acknowledged, no exit; a receive call that fails otherwise takes the
\* worker into the sleep of the fixed backoff interval.
C15_TimeoutIsEmptyPoll ==
    /\ [](\A w \in WorkerIds :
            pc[w] = "timedOut" => timer[w] = 0 /\ batch[w] = <<>>)
    /\ [][\A w \in WorkerIds :
            /\ ReceiveDone(w, 0, "timeout") \/ ReceiveDone(w, 0, "canceled") =>
                  /\ pc'[w] = "timedOut"
                  /\ UNCHANGED <<batch, timer, queue, issued, wg>>
            /\ pc[w] = "timedOut" /\ pc'[w] # "timedOut" =>
                  /\ pc'[w] = "loop"
                  /\ UNCHANGED <<batch, timer, queue, issued, wg>>
            /\ ReceiveDone(w, 0, "error") =>
                  pc'[w] = "backoff" /\ timer'[w] = BackoffInterval]_vars

\* one worker is at the continue after a timed-out receive call, holding
\* nothing and not sleeping, while the other sleeps after a failed one
C15_Witness ==
    \E w \in WorkerIds, v \in WorkerIds :
        /\ pc[w] = "timedOut" /\ timer[w] = 0 /\ batch[w] = <<>>
        /\ pc[v] = "backoff" /\ timer[v] = BackoffInterval

\* C17: when the receiver could not be created there is no Consumer: Start
\* never runs and returns nothing, no worker exists, no message is delivered
\* or acknowledged, Stop never runs and the receiver is never closed.
C17_NoConsumerOnError ==
    receiverErr =>
        /\ startPc = "idle" /\ startRet = "none" /\ starts = 0 /\ wg = 0
        /\ \A w \in WorkerIds : pc[w] = "none" /\ batch[w] = <<>>
        /\ issued = 0
        /\ stopPc = "idle" /\ ~stopChan /\ ~receiverClosed

\* NewConsumer failed with messages waiting in the queue, and the caller has
\* since cancelled its context
C17_Witness ==
    receiverErr /\ ~Built /\ queue > 0 /\ ctxCancelled

\* C16: the Consumer that NewConsumer returns works with 1 worker when
\* MaxConcurrent was unset or not positive and with batches of 10 when
\* MaxMessages was unset or not positive, and with the configured value
\* otherwise; both are positive in every case.
C16_DefaultsApplied ==
    consumer = "built" =>
        /\ rawCfg.MaxConcurrent <= 0 => cfg.MaxConcurrent = 1
        /\ rawCfg.MaxConcurrent > 0 => cfg.MaxConcurrent = rawCfg.MaxConcurrent
        /\ rawCfg.MaxMessages <= 0 => cfg.MaxMessages = 10
        /\ rawCfg.MaxMessages > 0 => cfg.MaxMessages = rawCfg.MaxMessages
        /\ cfg.MaxConcurrent > 0 /\ cfg.MaxMessages > 0

\* a Consumer was built from a config with a negative MaxConcurrent and an
\* unset MaxMessages
C16_Witness ==
    /\ consumer = "built"
    /\ rawCfg.MaxConcurrent < 0 /\ rawCfg.MaxMessages = 0
    /\ cfg.MaxConcurrent = 1 /\ cfg.MaxMessages = 10

\* C20: in the mock client the messages Receive has returned for a queue,
\* followed by the ones the queue still holds, are the messages sent to it in
\* the order of sending; a call of Receive with maxMessages >= 1 returns no
\* error and min(k, maxMessages) messages, k being the number the queue held,
\* which are the oldest ones not yet received (the first min(k, maxMessages)
\* sent when nothing was received before), and nothing for an empty or
\* unknown queue.
C20_MockFifo ==
    /\ client = "mock" => \A q \in QueueNames : recvLog[q] \o Held(q) = sentLog[q]
    /\ lastReceive.called /\ lastReceive.max >= 1 =>
          LET q == lastReceive.queue
              n == Len(lastReceive.msgs)
              got == Len(recvLog[q])
          IN  /\ lastReceive.err = "nil"
              /\ n = Min(lastReceive.had, lastReceive.max)
              /\ lastReceive.msgs = SubSeq(sentLog[q], got - n + 1, got)
              /\ lastReceive.had = 0 => lastReceive.msgs = <<>>

\* two different messages were sent to a queue and Receive, asked for one,
\* returned the first and left the second
C20_Witness ==
    /\ lastReceive.called /\ lastReceive.max = 1 /\ lastReceive.had = 2
    /\ LET q == lastReceive.queue
       IN  /\ Len(sentLog[q]) = 2 /\ sentLog[q][1] # sentLog[q][2]
           /\ lastReceive.msgs = <<sentLog[q][1]>>
           /\ Held(q) = <<sentLog[q][2]>>

\* the deliveries of messages with lock token t that Receive has made
Deliveries(t) ==
    {d \in QueueNames \X (1..MaxSends) :
        d[2] <= Len(recvLog[d[1]]) /\ recvLog[d[1]][d[2]].LockToken = t}

\* C19: a message that Receive returned and whose lock token Abandon was
\* then called with can be received again: it is held by a queue of the mock
\* client again, or Receive has already returned it a second time.
C19_AbandonRedelivers ==
    \A t \in abandoned :
        \/ \E q \in QueueNames : \E i \in 1..Len(Held(q)) : Held(q)[i].LockToken = t
        \/ Cardinality(Deliveries(t)) >= 2

\* the index of the last option of a kind in a list of options, 0 if none
LastOption(opts, kind) ==
    LET at == {i \in 1..Len(opts) : opts[i].kind = kind}
    IN  IF at = {} THEN 0 ELSE CHOOSE i \in at : \A j \in at : j <= i

\* the content type a message is sent with: the one given last, or none
SentContentType(opts) ==
    IF LastOption(opts, "ContentType") = 0 THEN ""
    ELSE opts[LastOption(opts, "ContentType")].str

\* the keys and values of the property map a message is sent with: those of
\* the map given last, or none
SentProperties(opts) ==
    IF LastOption(opts, "Properties") = 0 THEN {}
    ELSE opts[LastOption(opts, "Properties")].props.kv

\* C18: with either client, the i-th message received from a queue carries
\* the body, the content type and the keys and values of the property map
\* that the i-th message sent to that queue was sent with.
C18_RoundTrip ==
    \A q \in QueueNames : \A i \in 1..Len(recvLog[q]) :
        /\ i <= Len(optsLog[q])
        /\ recvLog[q][i].Body = optsLog[q][i].body
        /\ recvLog[q][i].ContentType = SentContentType(optsLog[q][i].opts)
        /\ recvLog[q][i].Properties.kv = SentProperties(optsLog[q][i].opts)

\* a message sent through the Azure client with content type
\* application/json and the property k = v has been converted for the handler
C18_Witness ==
    /\ client = "azure"
    /\ \E q \in QueueNames :
          /\ Len(recvLog[q]) >= 1
          /\ SentContentType(optsLog[q][1].opts) = "application/json"
          /\ SentProperties(optsLog[q][1].opts) = {<<"k", "v">>}
          /\ recvLog[q][1].ContentType = "application/json"
          /\ recvLog[q][1].Properties = Props({<<"k", "v">>})

\* C21: in the mock blob client, for every container and blob name, Exists
\* returns true without error exactly when the last Upload or Delete of that
\* pair that took effect was an Upload, and Get then returns the bytes of
\* that Upload (and an error otherwise); Exists returns false without error
\* for a container nothing was ever uploaded to; List with the empty prefix
\* returns one entry for each existing blob of the container and no other,
\* with the blob's size; and what the last call of Get, Exists or List
\* returned is what these say.
C21_BlobConsistency ==
    /\ \A c \in Containers : \A b \in BlobNames :
          LET last == blobLast[c][b]
          IN  /\ MockBlobExists(c, b) = [exists |-> last.op = "upload", err |-> "nil"]
              /\ last.op = "upload" =>
                    MockBlobGet(c, b) = [data |-> last.data, err |-> "nil"]
              /\ last.op # "upload" => MockBlobGet(c, b).err # "nil"
    /\ \A c \in Containers :
          LET existing == {b \in BlobNames : blobLast[c][b].op = "upload"}
              items == MockBlobList(c, <<>>).items
          IN  /\ MockBlobList(c, <<>>).err = "nil"
              /\ Cardinality(items) = Cardinality(existing)
              /\ {i.Name : i \in items} = existing
              /\ \A i \in items : i.Size = Len(blobLast[c][i.Name].data)
    /\ \A c \in Containers \ DOMAIN blobs : \A b \in BlobNames :
          MockBlobExists(c, b) = [exists |-> FALSE, err |-> "nil"]
    /\ blobRet.op = "Exists" =>
          /\ blobRet.err = "nil"
          /\ blobRet.exists <=> blobLast[blobRet.container][blobRet.name].op = "upload"
    /\ blobRet.op = "Get" /\ blobRet.err = "nil" =>
          /\ blobLast[blobRet.container][blobRet.name].op = "upload"
          /\ blobRet.data = blobLast[blobRet.container][blobRet.name].data
    /\ blobRet.op = "List" /\ blobRet.name = <<>> =>
          {i.Name : i \in blobRet.items} =
             {b \in BlobNames : blobLast[blobRet.container][b].op = "upload"}

\* Get has just returned the bytes last uploaded to a blob whose neighbour in
\* the container was deleted, while a blob of the same name in the other
\* container holds an upload of no bytes
C21_Witness ==
    /\ blobRet.op = "Get" /\ blobRet.err = "nil" /\ blobRet.data = <<2>>
    /\ blobRet.container = "c1" /\ blobRet.name = <<"a">>
    /\ blobLast["c1"][<<"a">>] = [op |-> "upload", data |-> <<2>>]
    /\ blobLast["c1"][<<"a", "b">>].op = "delete"
    /\ blobLast["c2"][<<"a">>] = [op |-> "upload", data |-> <<>>]

\* C22: when a request whose last error was set with HandledByService = true
\* has been served, ErrorHandlerMiddleware having marked the response with
\* X-Service-Handled: true, SlowRequestMiddleware has recorded no telemetry
\* error and sent no Slack error alert and no slow-request alert.
C22_NoDuplicateAlerts ==
    (/\ httpPc = "done"
     /\ Len(ginErrors) > 0 /\ ginErrors[Len(ginErrors)].HandledByService
     /\ writer.serviceHandled = "true") =>
        alerts \cap {"RecordError", "SendErrorAlert", "SendSlowRequestAlert"} = {}

\* C23: of the requests one IP makes with no time passing between them,
\* starting with the one that makes its client, the first Burst are passed to
\* the next handler and every later one is answered 429 without reaching the
\* handler, whatever the other IPs send meanwhile (whose requests leave the
\* tokens of this IP alone); and a request of an IP that comes a full refill
\* interval or more after its previous one is passed, Burst being at least 1.
C23_PerClientRateLimit ==
    /\ [](\A ip \in IPs :
            /\ rlRun[ip].passed = Min(rlRun[ip].n, rlRun[ip].start)
            /\ rlRun[ip].fresh => rlRun[ip].start = rlBurst)
    /\ [](rlLast.ip # "" => /\ rlLast.status \in {200, 429}
                            /\ rlLast.status = 429 <=> ~rlLast.handler)
    /\ [][\A ip \in IPs :
            /\ rlRun'[ip].n = rlRun[ip].n + 1 =>
                  /\ \A other \in (DOMAIN rlClients) \ {ip} :
                        other \in DOMAIN rlClients' /\ rlClients'[other] = rlClients[other]
                  /\ rlRun[ip].n >= rlRun'[ip].start =>
                        rlLast'.status = 429 /\ ~rlLast'.handler
                  /\ (/\ rlBurst >= 1 /\ ip \in DOMAIN rlClients
                      /\ rlClients[ip].idle >= RefillTicks) =>
                        rlLast'.status = 200 /\ rlLast'.handler]_vars

\* with a burst of 2 an IP has made three requests in a row, the first
\* making its client: two were passed and the third was answered 429, while
\* the other IP had its own request passed in between
C23_Witness ==
    /\ rlBurst = 2
    /\ rlRun["10.0.0.1"] = [start |-> 2, fresh |-> TRUE, n |-> 3, passed |-> 2]
    /\ rlLast = [ip |-> "10.0.0.1", status |-> 429, handler |-> FALSE]
    /\ rlRun["10.0.0.2"].n >= 1 /\ rlRun["10.0.0.2"].passed >= 1

\* the messages of worker w's batch that are not acknowledged yet
Unacked(w) ==
    IF idx[w] <= Len(batch[w]) THEN Len(batch[w]) - idx[w] + 1 ELSE 0

\* the same for the workers 0..w together
RECURSIVE UnackedUpTo(_)
UnackedUpTo(w) == IF w < 0 THEN 0 ELSE Unacked(w) + UnackedUpTo(w - 1)

C25_RetryAttempts ==
    ~retryCtx /\ retryCfg.MaxAttempts >= 1 =>
        /\ Len(fnLog) <= retryCfg.MaxAttempts
        /\ Len(waits) <= retryCfg.MaxAttempts - 1
        /\ Len(waits) = IF retryPc = "returned" THEN Len(fnLog) - 1 ELSE Len(fnLog)
        /\ \A i \in 1..Len(fnLog) :
              fnLog[i] = "ok" =>
                 /\ i = Len(fnLog)
                 /\ retryPc = "returned"
                 /\ retryRet.kind = "nil" /\ retryRet.err = "nil"
                 /\ retryCfg.withResult => retryRet.result = FnResult(i)
        /\ retryPc = "returned" =>
              \/ retryRet.kind = "nil" /\ fnLog # <<>> /\ fnLog[Len(fnLog)] = "ok"
              \/ /\ retryRet.kind = "max"
                 /\ Len(fnLog) = retryCfg.MaxAttempts
                 /\ \A i \in 1..Len(fnLog) : fnLog[i] = FnErr(i)
                 /\ retryRet.err = FnErr(retryCfg.MaxAttempts)
                 /\ retryRet.result = "zero"
                 /\ Len(waits) = retryCfg.MaxAttempts - 1

\* RetryWithResult with MaxAttempts = 3 returned the result of the third
\* invocation of fn after two failures and two waits
C25_Witness ==
    /\ ~retryCtx /\ retryCfg.MaxAttempts = 3 /\ retryCfg.withResult
    /\ retryPc = "returned" /\ retryRet.kind = "nil" /\ retryRet.result = FnResult(3)
    /\ fnLog = <<FnErr(1), FnErr(2), "ok">> /\ Len(waits) = 2

\* C26: fn is never invoked once the context is cancelled, except that an
\* invocation under way when it is cancelled runs to its end; when the
\* context was cancelled before an attempt started or during the wait
\* between two attempts, Retry returns the context's error; and the error
\* returned for a cancellation is the context's, not the one of the last
\* failed attempt.
C26_RetryHonoursCancel ==
    /\ [](retryPc = "returned" /\ cancelAt \in {"loop", "waiting"} =>
             retryRet.kind = "ctx")
    /\ [](retryRet.kind = "ctx" =>
             /\ retryCtx
             /\ retryRet.err = CtxErr /\ retryRet.err # lastErr
             /\ retryRet.result = "zero")
    /\ [][retryCtx /\ retryPc # "fn" => fnLog' = fnLog /\ retryPc' # "fn"]_vars

\* the context was cancelled during the wait after the first failed attempt
\* of three, and Retry returned the context's error with lastErr set
C26_Witness ==
    /\ retryCfg.MaxAttempts = 3 /\ cancelAt = "waiting"
    /\ retryPc = "returned" /\ retryRet.kind = "ctx" /\ retryRet.err = CtxErr
    /\ fnLog = <<FnErr(1)>> /\ lastErr = FnErr(1)

\* the attempts a delay is computed for
DelayAttempts == 0..MaxRetryAttempts

\* min(InitialDelay x Multiplier^a, MaxDelay)
ClaimedDelay(config, a) ==
    Min(config.InitialDelay * (IF a = 0 THEN 1 ELSE config.Multiplier ^ a),
        config.MaxDelay)

\* C27 as stated: the delay for attempt a is min(InitialDelay x Multiplier^a,
\* MaxDelay), and for Multiplier >= 1 the delays are non-decreasing in a and
\* never exceed MaxDelay.
C27_Original ==
    /\ \A a \in DelayAttempts : CalculateDelay(retryCfg, a) = ClaimedDelay(retryCfg, a)
    /\ \A i \in 1..Len(waits) : waits[i] = ClaimedDelay(retryCfg, i - 1)
    /\ retryCfg.Multiplier >= 1 =>
          \A a \in DelayAttempts :
             /\ CalculateDelay(retryCfg, a) <= CalculateDelay(retryCfg, a + 1)
             /\ CalculateDelay(retryCfg, a) <= retryCfg.MaxDelay

\* C27 amended: the delay for attempt a is min(InitialDelay x Multiplier^a,
\* MaxDelay) and never exceeds MaxDelay; for Multiplier >= 1 and
\* InitialDelay >= 0 the delays are non-decreasing in a, those Retry has
\* waited included.
C27_Amended ==
    /\ \A a \in DelayAttempts :
          /\ CalculateDelay(retryCfg, a) = ClaimedDelay(retryCfg, a)
          /\ CalculateDelay(retryCfg, a) <= retryCfg.MaxDelay
    /\ \A i \in 1..Len(waits) : waits[i] = ClaimedDelay(retryCfg, i - 1)
    /\ retryCfg.Multiplier >= 1 /\ retryCfg.InitialDelay >= 0 =>
          /\ \A a \in DelayAttempts :
                CalculateDelay(retryCfg, a) <= CalculateDelay(retryCfg, a + 1)
          /\ \A i \in 1..(Len(waits) - 1) : waits[i] <= waits[i + 1]

\* Retry has waited 1 and then 2 with InitialDelay = 1, Multiplier = 2 and
\* MaxDelay = 3, the delay of the next wait being capped at 3
C27_Witness ==
    /\ retryCfg.InitialDelay = 1 /\ retryCfg.Multiplier = 2 /\ retryCfg.MaxDelay = 3
    /\ waits = <<1, 2>>
    /\ CalculateDelay(retryCfg, 2) = 3

\* how often x occurs in the sequence s
RECURSIVE Count(_, _)
Count(x, s) == IF s = <<>> THEN 0
               ELSE (IF Head(s) = x THEN 1 ELSE 0) + Count(x, Tail(s))

\* the messages that calls of Receive on queue q have taken and are about to
\* return, as one sequence
RECURSIVE TakenBy(_, _)
TakenBy(ps, q) ==
    IF ps = {} THEN <<>>
    ELSE LET p == CHOOSE x \in ps : TRUE
         IN  (IF callers[p].op = "Receive" /\ callers[p].pc = "unlock" /\ callers[p].q = q
              THEN callers[p].out ELSE <<>>) \o TakenBy(ps \ {p}, q)

\* every message that occurs anywhere for queue q
Occurring(q) ==
    {s[i] : s \in {sentLog[q] \o recvLog[q] \o Held(q) \o TakenBy(Callers, q)},
            i \in 1..(Len(sentLog[q]) + Len(recvLog[q]) + Len(Held(q))
                        + Len(TakenBy(Callers, q)))}

\* C28: with goroutines calling Send and Receive on the mock client at the
\* same time, for each queue every message occurs among the messages Receive
\* has returned (or has taken and is about to return) and the messages still
\* queued together exactly as often as it was sent to that queue, so that
\* none is lost and none is returned twice; a call changes only the queue it
\* was made for; and never two calls are between Lock and Unlock.
C28_MockAtMostOnce ==
    /\ [](\A q \in QueueNames : \A m \in Occurring(q) :
             Count(m, recvLog[q]) + Count(m, TakenBy(Callers, q)) + Count(m, Held(q))
                = Count(m, sentLog[q]))
    /\ [](Cardinality({p \in Callers : callers[p].pc \in {"read", "write", "unlock"}}) <= 1)
    /\ [][\A q \in QueueNames :
            Held(q)' # Held(q) =>
               \E p \in Callers : /\ callers[p].pc = "write" /\ callers[p].q = q
                                  /\ callers'[p].pc = "unlock"]_vars

\* one goroutine has taken the first of two messages of a queue and is
\* about to return it while the other waits for the lock to receive from the
\* same queue
C28_Witness ==
    \E p \in Callers, o \in Callers, q \in QueueNames :
        /\ p # o
        /\ callers[p].op = "Receive" /\ callers[p].pc = "unlock" /\ callers[p].q = q
        /\ Len(sentLog[q]) = 2 /\ callers[p].out = <<sentLog[q][1]>>
        /\ Held(q) = <<sentLog[q][2]>>
        /\ callers[o].op = "Receive" /\ callers[o].pc = "lock" /\ callers[o].q = q

\* a worker that, from the moment Wait has returned, can only be one spawned
\* after the stop signal: it has not been spawned, has exited, or stands
\* before its first check of the signal
Gone(w) == pc[w] \in {"none", "exited"} \/ (pc[w] = "loop" /\ stopChan)

C30_StopTwiceSafe == ~panicked

====
